---- MODULE Spec2Model ----
(***************************************************************************)
(* Model of the instance provisioning and launch engine of the launcher    *)
(* (src-tauri/src/minecraft.rs).  One launch is a single-threaded          *)
(* orchestration of stages; the asset engine is the only place where       *)
(* several download tasks are in flight at once.  The filesystem is the    *)
(* only state that survives a launch.  The commands of the application     *)
(* shell (src-tauri/src/lib.rs, src-tauri/src/downloader.rs) that keep the *)
(* PKCE and token stores, filter the published lists and choose the Java   *)
(* version are modelled after the engine.                                  *)
(***************************************************************************)
EXTENDS Integers, Sequences, FiniteSets, TLC

(***************************************************************************)
(* Bounds of the model and constants of the program                        *)
(***************************************************************************)
\* largest number of entries of an asset index served to the asset engine
MaxEntries == 11
\* largest number of entries of an asset index served during a whole launch
MaxLaunchEntries == 2
\* batches of at most this many tasks are explored with every retry plan
MaxSmall == 2
\* largest number of failure messages handed to the error report directly
MaxFailed == 15
\* longest rule list handed to the rule evaluation directly
MaxRules == 3
\* largest asset index served while version resolution is examined
MaxResolveEntries == 1
\* longest arguments.jvm and arguments.game lists of a version document
MaxJvmArgs == 2
MaxGameArgs == 2
\* most libraries with natives in a version document, most entries of a
\* classifier archive
MaxNativeLibs == 2
MaxArchiveEntries == 2
\* largest minor version number of a Minecraft version string
MaxMinor == 22
\* most entries of a published modpack list or modpack file
MaxPublished == 3
\* most commands that use the PKCE store at the same time
MaxPkceCalls == 3
\* most commands that use the token store at the same time
MaxAuthCalls == 2

\* minecraft.rs:1049  let batch_size = 10;
batch_size == 10
\* minecraft.rs:1061  for attempt in 1..=3
max_attempts == 3
\* minecraft.rs:1100  failed.into_iter().take(10)
report_limit == 10

(***************************************************************************)
(* Artifacts: a key names both the URL an artifact is fetched from and the *)
(* path it is cached at.  The manifest is fetched but never cached.        *)
(***************************************************************************)
Min(a, b) == IF a < b THEN a ELSE b

ManifestKey == <<"manifest", 0>>
\* versions/<id>/<id>.jar
JarKey == <<"jar", 0>>
\* versions/<id>/<id>.json
JsonKey == <<"json", 0>>
\* assets/indexes/<assetIndexId>.json
IndexKey == <<"index", 0>>
\* libraries/<artifact.path> of the i-th library of the version document
LibKey(i) == <<"lib", i>>
\* assets/objects/<hash[0:2]>/<hash>
ObjKey(hash) == <<"obj", hash>>

(***************************************************************************)
(* Rule evaluation (used here by the library filter)                       *)
(***************************************************************************)
NoneStr == "<none>"

\* mutant: a name outside windows/linux/osx matches every platform
matches_os_name_unknown(name, os) ==
    CASE name = "windows" -> os = "windows"
      [] name = "linux"   -> os = "linux"
      [] name = "osx"     -> os = "macos"
      [] OTHER            -> TRUE

matches_os_name(name, os) ==
    CASE name = "windows" -> os = "windows"
      [] name = "linux"   -> os = "linux"
      [] name = "osx"     -> os = "macos"
      [] OTHER            -> FALSE

matches_arch(arch, cpu) ==
    CASE arch = "x86"   -> cpu = "x86"
      [] arch = "x64"   -> cpu = "x86_64"
      [] arch = "arm64" -> cpu = "aarch64"
      [] OTHER          -> FALSE

KnownFeatures == {"is_demo_user", "has_custom_resolution", "has_quick_plays_support",
                  "is_quick_play_singleplayer", "is_quick_play_multiplayer",
                  "is_quick_play_realms"}

\* one rule: the conjunction of its os name, os arch and feature conditions
RuleMatches(rule, os, cpu) ==
    /\ (rule.has_os /\ rule.os_name # NoneStr) => matches_os_name(rule.os_name, os)
    /\ (rule.has_os /\ rule.os_arch # NoneStr) => matches_arch(rule.os_arch, cpu)
    /\ \A f \in rule.features : f[1] \in KnownFeatures => f[2] = FALSE

\* mutant: the last matching rule decides
RuleScan_last(rules, k, os, cpu) ==
    LET hits == {j \in k..Len(rules) : RuleMatches(rules[j], os, cpu)} IN
    IF hits = {} THEN FALSE
    ELSE rules[CHOOSE j \in hits : \A i \in hits : i <= j].action = "allow"

RECURSIVE RuleScan(_, _, _, _)
RuleScan(rules, k, os, cpu) ==
    IF k > Len(rules) THEN FALSE
    ELSE IF rules[k].action = "allow" /\ RuleMatches(rules[k], os, cpu) THEN TRUE
    ELSE IF rules[k].action = "disallow" /\ RuleMatches(rules[k], os, cpu) THEN FALSE
    ELSE RuleScan(rules, k + 1, os, cpu)

\* mutant: the empty list is not treated apart
should_apply_rule_scanonly(rules, os, cpu) == RuleScan(rules, 1, os, cpu)

should_apply_rule(rules, os, cpu) ==
    IF rules = <<>> THEN TRUE ELSE RuleScan(rules, 1, os, cpu)

\* mutant: the rules of a library are not consulted
should_include_library_all(library, os, cpu) == TRUE

should_include_library(library, os, cpu) ==
    IF library.has_rules THEN should_apply_rule(library.rules, os, cpu) ELSE TRUE

(***************************************************************************)
(* The version document the server publishes for the requested version     *)
(***************************************************************************)
OsRule(action, name) ==
    [action |-> action, has_os |-> TRUE, os_name |-> name, os_arch |-> NoneStr,
     features |-> {}]

\* libraries of the version document, in manifest order
Libraries ==
    << [name |-> "common",  has_rules |-> FALSE, rules |-> <<>>, has_path |-> TRUE,
        has_natives |-> TRUE],
       [name |-> "winonly", has_rules |-> TRUE,
        rules |-> <<OsRule("allow", "windows")>>, has_path |-> TRUE,
        has_natives |-> FALSE],
       [name |-> "nopath",  has_rules |-> FALSE, rules |-> <<>>, has_path |-> FALSE,
        has_natives |-> FALSE],
       [name |-> "notosx",  has_rules |-> TRUE,
        rules |-> <<OsRule("disallow", "osx"), OsRule("allow", NoneStr)>>,
        has_path |-> TRUE, has_natives |-> FALSE] >>

\* <<cfg!(target_os), cfg!(target_arch)>> of the builds
Platforms == {<<"linux", "x86_64">>, <<"windows", "x86">>, <<"macos", "aarch64">>}

LibIds == 1..Len(Libraries)
Hashes == 1..(MaxEntries + MaxFailed)

\* versions/<mc>-<loader>-<ver>/<mc>-<loader>-<ver>.jar of the launched modpack
MarkerKey == <<"marker", 0>>
\* the installer jar of the modpack's loader
InstallerKey == <<"installer", 0>>

\* libraries/<classifier name>: the archive of native files that the natives
\* map and the classifiers of the first library name for the platform
ClassifierKey == <<"classifier", 0>>

\* modpack.forge_version, fabric_version, neoforge_version: the one in use
Loaders == {"none", "forge", "fabric", "neoforge"}

Paths == {JarKey, JsonKey, IndexKey, MarkerKey, ClassifierKey}
           \cup {LibKey(i) : i \in LibIds}
           \cup {ObjKey(h) : h \in Hashes}
Urls == Paths \cup {ManifestKey, InstallerKey}


(***************************************************************************)
(* State                                                                   *)
(***************************************************************************)
VARIABLES
    pc,             \* position of the launch orchestration
    call,           \* the operation most recently entered or returned, and how
    disk,           \* path -> number of times the file was written (0: absent)
    bad,            \* paths whose file holds an error body or a partial write
    index_objects,  \* hashes of the persisted asset index, in name order
    net,            \* url -> requests sent during the current launch
    dl_ret,         \* where download_minecraft_version returns to
    lib_i,          \* ensure_libraries: position in the library list
    satisfied,      \* nothing was missing when the running acquisition was entered
    work,           \* ensure_assets: missing_assets
    tasks,          \* ensure_assets: one download task per work-list item
    chunk,          \* ensure_assets: number of the batch being processed
    pauses,         \* ensure_assets: inter-batch pauses taken
    downloaded,     \* ensure_assets: count of successes
    failed,         \* ensure_assets: failure messages, in completion order
    target_os,      \* cfg!(target_os)
    target_arch,    \* cfg!(target_arch)
    entry_limit,    \* the server's asset index has at most this many entries
    manifest,       \* ids of the version manifest received by the current launch
    stages,         \* operations of the current launch that returned Ok, in order
    rules_arg,      \* should_apply_rule: the rule list it is called with
    applies,        \* should_apply_rule: the value it returned
    child,          \* the game process spawned by the current launch
    loader,         \* mod loader of the launched modpack, or "none"
    java_path,      \* options.java_path of the launches, NoneStr when not given
    installer_runs, \* exits of the loader installer runs of the current launch
    cmd_in,         \* build_launch_command: options, modpack and version details
    command,        \* build_launch_command: the value it returned
    nat_in,         \* ensure_native_libraries: the libraries and their archives
    natives,        \* <gameDir>/natives: writes per file name, and the result
    java_in,        \* ensure_java_installed_for_mc: the versions requested, in order
    java_out,       \* required_java_version: the value returned for each request
    scope_in,       \* fetch_modpack_list: the user's groups and the published list
    scope_out,      \* fetch_modpack_list: the entries it returned
    pkce_file,      \* pkce.json: state -> verifier, as the pairs it holds
    pkce_calls,     \* the calls of the PKCE helpers in flight, one per command
    auth_tokens,    \* AUTH_TOKENS: uuid -> token
    tokens_file,    \* tokens.json: the map last saved
    auth_calls      \* the commands get_auth_token / handle_microsoft_callback

vars == <<pc, call, disk, bad, index_objects, net, dl_ret, lib_i, satisfied,
          work, tasks, chunk, pauses, downloaded, failed, target_os, target_arch,
          entry_limit, manifest, stages, rules_arg, applies, child, loader, installer_runs,
          java_path, cmd_in, command, nat_in, natives, java_in, java_out,
          scope_in, scope_out, pkce_file, pkce_calls, auth_tokens, tokens_file,
          auth_calls>>

fsVars == <<disk, bad, index_objects>>
assetVars == <<work, tasks, chunk, pauses, downloaded, failed>>
cfgVars == <<target_os, target_arch, entry_limit, loader, java_path>>
ruleVars == <<rules_arg, applies>>
logVars == <<manifest, stages>>
javaVars == <<java_in, java_out>>
scopeVars == <<scope_in, scope_out>>
pkceVars == <<pkce_file, pkce_calls>>
authVars == <<auth_tokens, tokens_file, auth_calls>>
appVars == <<javaVars, scopeVars, pkceVars, authVars>>
pureVars == <<cmd_in, command, nat_in, natives, appVars>>

\* no command of the application shell (lib.rs, downloader.rs) is under examination
JavaIdle == java_in = <<>> /\ java_out = <<>>
ScopeIdle == scope_in = <<>> /\ scope_out = <<>>
PkceIdle == pkce_file = {} /\ pkce_calls = <<>>
AuthIdle == auth_tokens = <<>> /\ tokens_file = <<>> /\ auth_calls = <<>>
AppIdle == JavaIdle /\ ScopeIdle /\ PkceIdle /\ AuthIdle

\* build_launch_command and ensure_native_libraries are not under examination
BuilderIdle == cmd_in = <<>> /\ command = <<>> /\ nat_in = <<>> /\ natives = <<>>
PureIdle == BuilderIdle /\ AppIdle

\* an error string
Msg(text) == <<[kind |-> text, a |-> 0, b |-> 0]>>

Running(op) == [op |-> op, status |-> "run", msg |-> <<>>]
Ok(op) == [op |-> op, status |-> "ok", msg |-> <<>>]
Err(op, msg) == [op |-> op, status |-> "err", msg |-> msg]

Exists(path) == disk[path] > 0

\* a file is created or truncated and written
WriteFile(d, path) == [d EXCEPT ![path] = @ + 1]

Request(n, url) == [n EXCEPT ![url] = @ + 1]

Init ==
    /\ pc = "idle"
    /\ call = Running("none")
    /\ disk = [p \in Paths |-> 0]
    /\ bad = {}
    /\ index_objects = <<>>
    /\ net = [u \in Urls |-> 0]
    /\ dl_ret = "none"
    /\ lib_i = 0
    /\ satisfied = FALSE
    /\ work = <<>>
    /\ tasks = <<>>
    /\ chunk = 0
    /\ pauses = 0
    /\ downloaded = 0
    /\ failed = <<>>
    /\ target_os = "linux"
    /\ target_arch = "x86_64"
    /\ entry_limit = MaxLaunchEntries
    /\ manifest = <<>>
    /\ stages = <<>>
    /\ rules_arg = <<>>
    /\ applies = FALSE
    /\ child = "none"
    /\ installer_runs = <<>>
    /\ loader = "fabric"
    /\ java_path = "java"
    /\ PureIdle

(***************************************************************************)
(* launch: stages 1 and 2                                                  *)
(***************************************************************************)
\* the Tauri command launch_minecraft is invoked
Launch ==
    /\ pc \in {"idle", "done"}
    /\ pc' = "verify_java"
    /\ call' = Running("launch")
    /\ net' = [u \in Urls |-> 0]
    /\ dl_ret' = "none"
    /\ lib_i' = 0
    /\ satisfied' = FALSE
    /\ work' = <<>>
    /\ tasks' = <<>>
    /\ chunk' = 0
    /\ pauses' = 0
    /\ downloaded' = 0
    /\ failed' = <<>>
    /\ manifest' = <<>>
    /\ stages' = <<>>
    /\ child' = "none"
    /\ installer_runs' = <<>>
    /\ UNCHANGED <<fsVars, cfgVars, ruleVars, pureVars>>

VerifyJava ==
    /\ pc = "verify_java"
    /\ \E out \in {"ok", "spawn_failed", "bad_status"} :
         IF out = "ok"
         THEN /\ pc' = "get_modpack"
              /\ call' = Ok("verify_java")
              /\ stages' = Append(stages, "verify_java")
         ELSE /\ pc' = "done"
              /\ call' = Err("verify_java", Msg(out))
              /\ UNCHANGED stages
    /\ UNCHANGED <<fsVars, net, dl_ret, lib_i, satisfied, assetVars, cfgVars, ruleVars,
                   manifest, child, installer_runs, pureVars>>

GetModpack ==
    /\ pc = "get_modpack"
    /\ \E found \in BOOLEAN :
         IF found
         THEN /\ pc' = "ensure_minecraft_version"
              /\ call' = Ok("get_modpack")
              /\ stages' = Append(stages, "get_modpack")
         ELSE /\ pc' = "done"
              /\ call' = Err("get_modpack", Msg("Modpack not found"))
              /\ UNCHANGED stages
    /\ UNCHANGED <<fsVars, net, dl_ret, lib_i, satisfied, assetVars, cfgVars, ruleVars,
                   manifest, child, installer_runs, pureVars>>

(***************************************************************************)
(* ensure_minecraft_version and download_minecraft_version                 *)
(***************************************************************************)
EnsureMinecraftVersion ==
    /\ pc = "ensure_minecraft_version"
    /\ call' = Running("ensure_minecraft_version")
    /\ IF ~Exists(JarKey)
       THEN /\ pc' = "dl_manifest"
            /\ dl_ret' = "ensure_libraries"
            /\ net' = Request(net, ManifestKey)
       ELSE /\ pc' = "ensure_libraries"
            /\ UNCHANGED <<dl_ret, net>>
    /\ UNCHANGED <<fsVars, lib_i, satisfied, assetVars, cfgVars, ruleVars, logVars, child, installer_runs, pureVars>>

\* modpack.minecraft_version, the id asked for, as the components of "1.20"
version == <<1, 20>>

\* version ids of the manifests the server may publish, in manifest order
ManifestChoices ==
    { << <<1, 20, 1>>, <<1, 20>>, <<1, 2>> >>,
      << <<1, 20, 1>> >>,
      << <<1, 2>>, <<1, 21>> >> }

\* mutant: an entry whose id starts with the requested id is taken
VersionFound_prefix(versions, id) ==
    \E k \in DOMAIN versions :
       Len(versions[k]) >= Len(id) /\ SubSeq(versions[k], 1, Len(id)) = id

\* manifest.versions.into_iter().find(|v| v.id == version)
VersionFound(versions, id) == \E k \in DOMAIN versions : versions[k] = id

\* the manifest response arrives (its status is not looked at); the version
\* is looked up; the detail document is requested
DlManifest ==
    /\ pc = "dl_manifest"
    /\ \E out \in {"ok", "Failed to fetch version manifest",
                   "Failed to parse version manifest"} :
         IF out = "ok"
         THEN \E m \in ManifestChoices :
                /\ manifest' = m
                /\ IF VersionFound(m, version)
                   THEN /\ pc' = "dl_details"
                        /\ call' = Running("download_minecraft_version")
                        /\ net' = Request(net, JsonKey)
                   ELSE /\ pc' = "done"
                        /\ call' = Err("download_minecraft_version",
                                       Msg("Version not found"))
                        /\ UNCHANGED net
         ELSE /\ pc' = "done"
              /\ call' = Err("download_minecraft_version", Msg(out))
              /\ UNCHANGED <<net, manifest, child, installer_runs, pureVars>>
    /\ UNCHANGED <<fsVars, dl_ret, lib_i, satisfied, assetVars, cfgVars, ruleVars, stages, child, installer_runs, pureVars>>

\* the detail document arrives; the version directory is created; the
\* client jar is requested unless it exists
DlDetails ==
    /\ pc = "dl_details"
    /\ \E out \in {"ok", "Failed to fetch version details",
                   "Failed to parse version details"} :
         IF out = "ok"
         THEN IF ~Exists(JarKey)
              THEN /\ pc' = "dl_jar"
                   /\ net' = Request(net, JarKey)
                   /\ UNCHANGED call
              ELSE /\ pc' = "dl_json"
                   /\ UNCHANGED <<net, call>>
         ELSE /\ pc' = "done"
              /\ call' = Err("download_minecraft_version", Msg(out))
              /\ UNCHANGED net
    /\ UNCHANGED <<fsVars, dl_ret, lib_i, satisfied, assetVars, cfgVars, ruleVars, logVars, child, installer_runs, pureVars>>

\* outcomes of a download that is written without a status check:
\*   ok      a 2xx body is written
\*   status  a non-2xx body is written
\*   net     the request or the body read fails
\*   create  File::create fails
\*   write   the file is created and write_all fails
ByteOutcomes == {"ok", "status", "net", "create", "write"}

FileLeft(out) == out \in {"ok", "status", "write"}
FileBad(out) == out \in {"status", "write"}
\* mutant: a failed request or write does not end the operation
Succeeds_always(out) == TRUE

Succeeds(out) == out \in {"ok", "status"}

DlJar ==
    /\ pc = "dl_jar"
    /\ \E out \in ByteOutcomes :
         /\ disk' = IF FileLeft(out) THEN WriteFile(disk, JarKey) ELSE disk
         /\ bad' = IF FileBad(out) THEN bad \cup {JarKey} ELSE bad
         /\ IF Succeeds(out)
            THEN /\ pc' = "dl_json"
                 /\ UNCHANGED call
            ELSE /\ pc' = "done"
                 /\ call' = Err("download_minecraft_version", Msg("client jar"))
    /\ UNCHANGED <<index_objects, net, dl_ret, lib_i, satisfied, assetVars, cfgVars, ruleVars, logVars, child, installer_runs, pureVars>>

\* the version document is serialised and written, whether or not it exists
DlJson ==
    /\ pc = "dl_json"
    /\ \E out \in {"ok", "create"} :
         IF out = "ok"
         THEN /\ disk' = WriteFile(disk, JsonKey)
              /\ pc' = dl_ret
              /\ call' = Ok("download_minecraft_version")
         ELSE /\ pc' = "done"
              /\ call' = Err("download_minecraft_version",
                             Msg("Failed to write version JSON"))
              /\ UNCHANGED disk
    /\ UNCHANGED <<bad, index_objects, net, dl_ret, lib_i, satisfied, assetVars, cfgVars, ruleVars, logVars, child, installer_runs, pureVars>>

(***************************************************************************)
(* ensure_libraries                                                        *)
(***************************************************************************)
\* the library passes the rule filter and its artifact has a path
LibraryWanted(i, os, cpu) ==
    /\ should_include_library(Libraries[i], os, cpu)
    /\ Libraries[i].has_path

\* mutant: the library is downloaded whether or not its file exists
LibraryNeeded_always(i, d, os, cpu) == LibraryWanted(i, os, cpu)

\* "Download if not exists"
LibraryNeeded(i, d, os, cpu) ==
    LibraryWanted(i, os, cpu) /\ d[LibKey(i)] = 0

\* mutant: a library with natives is written where its classifier archive is
library_path_classifier(i) ==
    IF Libraries[i].has_natives THEN ClassifierKey ELSE LibKey(i)

\* minecraft_dir.join("libraries").join(path), path being artifact.path
library_path(i) == LibKey(i)

LibrariesSatisfied ==
    /\ Exists(JsonKey)
    /\ \A i \in LibIds : LibraryWanted(i, target_os, target_arch) => Exists(LibKey(i))

EnsureLibraries ==
    /\ pc = "ensure_libraries"
    /\ IF Exists(JsonKey)
       THEN /\ pc' = "libs_loop"
            /\ call' = Running("ensure_libraries")
            /\ lib_i' = 1
            /\ satisfied' = LibrariesSatisfied
       ELSE /\ pc' = "done"
            /\ call' = Err("ensure_libraries", Msg("Failed to read version JSON"))
            /\ UNCHANGED <<lib_i, satisfied>>
    /\ UNCHANGED <<fsVars, net, dl_ret, assetVars, cfgVars, ruleVars, logVars, child, installer_runs, pureVars>>

\* one iteration of the loop over the libraries, up to its request
LibraryStep ==
    /\ pc = "libs_loop"
    /\ lib_i <= Len(Libraries)
    /\ IF LibraryNeeded(lib_i, disk, target_os, target_arch)
       THEN /\ pc' = "lib_req"
            /\ net' = Request(net, LibKey(lib_i))
            /\ UNCHANGED lib_i
       ELSE /\ lib_i' = lib_i + 1
            /\ UNCHANGED <<pc, net>>
    /\ UNCHANGED <<call, fsVars, dl_ret, satisfied, assetVars, cfgVars, ruleVars, logVars, child, installer_runs, pureVars>>

\* the library response arrives and is written
LibraryRespond ==
    /\ pc = "lib_req"
    /\ \E out \in ByteOutcomes :
         /\ disk' = IF FileLeft(out) THEN WriteFile(disk, library_path(lib_i)) ELSE disk
         /\ bad' = IF FileBad(out) THEN bad \cup {library_path(lib_i)} ELSE bad
         /\ IF Succeeds(out)
            THEN /\ pc' = "libs_loop"
                 /\ lib_i' = lib_i + 1
                 /\ UNCHANGED call
            ELSE /\ pc' = "done"
                 /\ call' = Err("ensure_libraries", Msg("library"))
                 /\ UNCHANGED lib_i
    /\ UNCHANGED <<index_objects, net, dl_ret, satisfied, assetVars, cfgVars, ruleVars, logVars, child, installer_runs, pureVars>>

LibrariesDone ==
    /\ pc = "libs_loop"
    /\ lib_i > Len(Libraries)
    /\ pc' = "ensure_assets"
    /\ call' = Ok("ensure_libraries")
    /\ stages' = stages \o <<"ensure_libraries", "ensure_minecraft_version">>
    /\ UNCHANGED <<fsVars, net, dl_ret, lib_i, satisfied, assetVars, cfgVars, ruleVars,
                   manifest, child, installer_runs, pureVars>>

(***************************************************************************)
(* ensure_assets: index and work list                                      *)
(***************************************************************************)
\* asset indexes the server may publish: entry k (in name order) has hash
\* Distinct(n)[k]; in Alias(n, a) the last entry carries the hash of entry a
Distinct(n) == [k \in 1..n |-> k]
Alias(n, a) == [k \in 1..n |-> IF k = n THEN a ELSE k]

\* an entry without a "hash" string, and one whose hash has fewer than two
\* characters, stand in the place of a hash
NoHash == 0
ShortHash == -1

IndexChoices(limit) ==
    {Distinct(n) : n \in 0..limit}
      \cup {Alias(n, 1) : n \in 2..limit}
      \cup {Alias(n, n - 1) : n \in 3..limit}
      \cup {Alias(n, NoHash) : n \in 1..limit}
      \cup {Alias(n, ShortHash) : n \in 1..limit}
      \cup {o \in {<<NoHash, ShortHash>>, <<ShortHash, NoHash>>} : Len(o) <= limit}

\* positions of the index whose entry the scan cannot turn into a path
Malformed(objects) == {k \in DOMAIN objects : objects[k] \in {NoHash, ShortHash}}

\* the scan stops at the first such entry: obj["hash"].as_str() gives None,
\* or &hash[0..2] is out of range and the thread panics
FirstMalformed(objects) ==
    CHOOSE k \in Malformed(objects) : \A j \in Malformed(objects) : k <= j

\* the value of a call that panicked: it returns nothing
Panic(op) == [op |-> op, status |-> "panic", msg |-> <<>>]

ScanFailure(objects) ==
    IF objects[FirstMalformed(objects)] = NoHash
    THEN Err("ensure_assets", Msg("Missing hash in asset object"))
    ELSE Panic("ensure_assets")

\* the entries of the index whose object is missing on disk, in index order
RECURSIVE MissingFrom(_, _, _)
MissingFrom(objects, d, k) ==
    IF k > Len(objects) THEN <<>>
    ELSE (IF d[ObjKey(objects[k])] = 0
          THEN <<[name |-> k, hash |-> objects[k]]>>
          ELSE <<>>) \o MissingFrom(objects, d, k + 1)

\* mutant: every entry of the index is put on the work list
MissingAssets_all(objects, d) ==
    [k \in 1..Len(objects) |-> [name |-> k, hash |-> objects[k]]]

MissingAssets(objects, d) == MissingFrom(objects, d, 1)

AssetsSatisfied ==
    /\ Exists(JsonKey)
    /\ Exists(IndexKey)
    /\ IndexKey \notin bad
    /\ Malformed(index_objects) = {}
    /\ \A k \in DOMAIN index_objects : Exists(ObjKey(index_objects[k]))

EnsureAssets ==
    /\ pc = "ensure_assets"
    /\ IF ~Exists(JsonKey)
       THEN /\ pc' = "done"
            /\ call' = Err("ensure_assets", Msg("Failed to read version JSON"))
            /\ UNCHANGED <<net, satisfied>>
       ELSE /\ call' = Running("ensure_assets")
            /\ satisfied' = AssetsSatisfied
            /\ IF ~Exists(IndexKey)
               THEN /\ pc' = "as_index"
                    /\ net' = Request(net, IndexKey)
               ELSE /\ pc' = "as_scan"
                    /\ UNCHANGED net
    /\ UNCHANGED <<fsVars, dl_ret, lib_i, assetVars, cfgVars, ruleVars, logVars, child, installer_runs, pureVars>>

\* the index response arrives and is written without a status check
AssetIndexRespond ==
    /\ pc = "as_index"
    /\ \E out \in ByteOutcomes :
         /\ disk' = IF FileLeft(out) THEN WriteFile(disk, IndexKey) ELSE disk
         /\ bad' = IF FileBad(out) THEN bad \cup {IndexKey} ELSE bad
         /\ IF out = "ok"
            THEN \E objects \in IndexChoices(entry_limit) : index_objects' = objects
            ELSE UNCHANGED index_objects
         /\ IF Succeeds(out)
            THEN /\ pc' = "as_scan"
                 /\ UNCHANGED call
            ELSE /\ pc' = "done"
                 /\ call' = Err("ensure_assets", Msg("asset index"))
    /\ UNCHANGED <<net, dl_ret, lib_i, satisfied, assetVars, cfgVars, ruleVars, logVars, child, installer_runs, pureVars>>

NewTask == [phase |-> "new", attempt |-> 0, sent |-> 0, fails |-> 0,
            slept |-> 0, plan |-> 0]

\* the index is read and parsed, the missing assets are collected
AssetsScan ==
    /\ pc = "as_scan"
    /\ IF IndexKey \in bad
       THEN /\ pc' = "done"
            /\ call' = Err("ensure_assets", Msg("Failed to parse asset index"))
            /\ UNCHANGED <<assetVars, stages>>
       ELSE IF Malformed(index_objects) # {}
       THEN /\ pc' = "done"
            /\ call' = ScanFailure(index_objects)
            /\ UNCHANGED <<assetVars, stages>>
       ELSE LET missing_assets == MissingAssets(index_objects, disk) IN
            /\ work' = missing_assets
            /\ IF missing_assets = <<>>
               THEN /\ pc' = "handle_modloader"
                    /\ call' = Ok("ensure_assets")
                    /\ stages' = Append(stages, "ensure_assets")
                    /\ UNCHANGED <<tasks, chunk, pauses, downloaded, failed>>
               ELSE /\ pc' = "as_batch"
                    /\ tasks' = [i \in 1..Len(missing_assets) |-> NewTask]
                    /\ chunk' = 1
                    /\ downloaded' = 0
                    /\ failed' = <<>>
                    /\ UNCHANGED <<call, pauses, stages>>
    /\ UNCHANGED <<fsVars, net, dl_ret, lib_i, satisfied, cfgVars, ruleVars, manifest, child, installer_runs, pureVars>>

(***************************************************************************)
(* ensure_assets: batches of download tasks                                *)
(***************************************************************************)
\* missing_assets.chunks(batch_size): the work-list positions of batch c
ChunkItems(c) ==
    {i \in 1..Len(work) : (c - 1) * batch_size < i /\ i <= c * batch_size}

ChunkOf(i) == ((i - 1) \div batch_size) + 1

Finished(t) == t.phase \in {"ok", "err"}
InFlight(t) == t.phase \in {"req", "sleep"}

\* mutant: the batch counts as complete when its first task returns
BatchDrained_first(c) == \E i \in ChunkItems(c) : Finished(tasks[i])

\* mutant: the batch counts as complete when one of its tasks has failed
BatchDrained_failfast(c) ==
    \/ \A i \in ChunkItems(c) : Finished(tasks[i])
    \/ \E i \in ChunkItems(c) : tasks[i].phase = "err"

\* futures.next() yields None: every task of the batch has returned
BatchDrained(c) == \A i \in ChunkItems(c) : Finished(tasks[i])

\* What the origin server does to the tasks of one batch: plan[i] is the
\* number of attempts of task i that fail before one succeeds.  Batches of at
\* most MaxSmall tasks are explored with every plan, larger ones with at
\* most one failing item, the first or the last of the batch.
PlanChoices(items) ==
    IF Cardinality(items) <= MaxSmall
    THEN [items -> 0..max_attempts]
    ELSE {[i \in items |-> 0]}
           \cup {[i \in items |-> IF i = j THEN k ELSE 0] :
                   j \in {i \in items : (\A o \in items : i <= o)
                                          \/ (\A o \in items : i >= o)},
                   k \in 1..max_attempts}

FailKinds == {"net", "http", "fs"}

\* the error string of download_asset_with_retry
FailureMsg(kind, name, attempt) ==
    IF kind = "fs"
    THEN [kind |-> "Failed to write asset file", a |-> 0, b |-> 0]
    ELSE [kind |-> kind, a |-> name, b |-> attempt]

\* the batch is pushed to FuturesUnordered and polled: every task sends the
\* request of its first attempt
StartBatch ==
    /\ pc = "as_batch"
    /\ \E plan \in PlanChoices(ChunkItems(chunk)) :
         tasks' = [i \in DOMAIN tasks |->
                     IF i \in ChunkItems(chunk)
                     THEN [phase |-> "req", attempt |-> 1, sent |-> 1, fails |-> 0,
                           slept |-> 0, plan |-> plan[i]]
                     ELSE tasks[i]]
    /\ net' = [u \in Urls |->
                 net[u] + Cardinality({i \in ChunkItems(chunk) : ObjKey(work[i].hash) = u})]
    /\ pc' = "as_wait"
    /\ UNCHANGED <<call, fsVars, dl_ret, lib_i, satisfied, work, chunk, pauses,
                   downloaded, failed, cfgVars, ruleVars, logVars, child, installer_runs, pureVars>>

\* mutant: one retry too many
LastAttempt_four(attempt) == attempt = max_attempts + 1

\* "if attempt == 3 { return Err(e); }"
LastAttempt(attempt) == attempt = max_attempts

\* mutant: every failed attempt leaves a message in the failure list
TaskFails_each(i, kind) ==
    LET t == tasks[i] IN
    /\ failed' = Append(failed, FailureMsg(kind, work[i].name, t.attempt))
    /\ IF LastAttempt(t.attempt)
       THEN tasks' = [tasks EXCEPT ![i] = [t EXCEPT !.phase = "err", !.fails = @ + 1,
                                                   !.plan = 0]]
       ELSE tasks' = [tasks EXCEPT ![i] = [t EXCEPT !.phase = "sleep", !.fails = @ + 1]]

\* the attempt of task i fails: its error is reported after the last attempt,
\* otherwise the task starts its backoff sleep
TaskFails(i, kind) ==
    LET t == tasks[i] IN
    IF LastAttempt(t.attempt)
    THEN /\ tasks' = [tasks EXCEPT ![i] = [t EXCEPT !.phase = "err", !.fails = @ + 1,
                                                    !.plan = 0]]
         /\ failed' = Append(failed, FailureMsg(kind, work[i].name, t.attempt))
    ELSE /\ tasks' = [tasks EXCEPT ![i] = [t EXCEPT !.phase = "sleep", !.fails = @ + 1]]
         /\ UNCHANGED failed

\* the attempt of task i succeeds: the object is written, the task returns Ok
TaskSucceeds(i) ==
    /\ tasks' = [tasks EXCEPT ![i] = [@ EXCEPT !.phase = "ok", !.plan = 0]]
    /\ disk' = WriteFile(disk, ObjKey(work[i].hash))
    /\ downloaded' = downloaded + 1

\* the response to the outstanding request of task i arrives
Respond(i) ==
    /\ pc = "as_wait"
    /\ tasks[i].phase = "req"
    /\ IF tasks[i].fails < tasks[i].plan
       THEN /\ \E kind \in FailKinds : TaskFails(i, kind)
            /\ UNCHANGED <<disk, downloaded>>
       ELSE /\ TaskSucceeds(i)
            /\ UNCHANGED failed
    /\ UNCHANGED <<pc, call, bad, index_objects, net, dl_ret, lib_i, satisfied,
                   work, chunk, pauses, cfgVars, ruleVars, logVars, child, installer_runs, pureVars>>

\* the backoff sleep of task i ends: the next attempt sends its request
Wake(i) ==
    /\ pc = "as_wait"
    /\ tasks[i].phase = "sleep"
    /\ tasks' = [tasks EXCEPT ![i] = [@ EXCEPT !.phase = "req", !.attempt = @ + 1,
                                               !.sent = @ + 1, !.slept = @ + 1]]
    /\ net' = Request(net, ObjKey(work[i].hash))
    /\ UNCHANGED <<pc, call, fsVars, dl_ret, lib_i, satisfied, work, chunk, pauses,
                   downloaded, failed, cfgVars, ruleVars, logVars, child, installer_runs, pureVars>>

\* the batch is complete: the rate-limiting sleep starts
BatchDone ==
    /\ pc = "as_wait"
    /\ BatchDrained(chunk)
    /\ pc' = "as_pause"
    /\ UNCHANGED <<call, fsVars, net, dl_ret, lib_i, satisfied, assetVars, cfgVars, ruleVars, logVars, child, installer_runs, pureVars>>

\* the rate-limiting sleep ends: the next batch, or the end of the loop
PauseElapsed ==
    /\ pc = "as_pause"
    /\ pauses' = pauses + 1
    /\ IF chunk * batch_size < Len(work)
       THEN /\ chunk' = chunk + 1
            /\ pc' = "as_batch"
       ELSE /\ pc' = "as_report"
            /\ UNCHANGED chunk
    /\ UNCHANGED <<call, fsVars, net, dl_ret, lib_i, satisfied, work, tasks,
                   downloaded, failed, cfgVars, ruleVars, logVars, child, installer_runs, pureVars>>

\* mutant: the suffix is added from the 10th failure on
ErrorReport_suffix(errors) ==
    LET error_count == Len(errors)
        reported_errors == SubSeq(errors, 1, Min(report_limit, error_count))
    IN <<[kind |-> "assets failed to download. First errors:",
          a |-> error_count, b |-> Len(reported_errors)]>>
         \o reported_errors
         \o (IF error_count >= report_limit
             THEN <<[kind |-> "... and more errors",
                     a |-> error_count - report_limit, b |-> 0]>>
             ELSE <<>>)

\* the error string of ensure_assets for a non-empty list of failures
ErrorReport(errors) ==
    LET error_count == Len(errors)
        reported_errors == SubSeq(errors, 1, Min(report_limit, error_count))
    IN <<[kind |-> "assets failed to download. First errors:",
          a |-> error_count, b |-> Len(reported_errors)]>>
         \o reported_errors
         \o (IF error_count > report_limit
             THEN <<[kind |-> "... and more errors",
                     a |-> error_count - report_limit, b |-> 0]>>
             ELSE <<>>)

\* mutant: a single failure is tolerated
AssetsResult_tolerant(errors) ==
    IF Len(errors) > 1 THEN Err("ensure_assets", ErrorReport(errors))
    ELSE Ok("ensure_assets")

\* "if !failed.is_empty() { ... return Err(error_msg); }  Ok(())"
AssetsResult(errors) ==
    IF errors # <<>> THEN Err("ensure_assets", ErrorReport(errors))
    ELSE Ok("ensure_assets")

AssetsReport ==
    /\ pc = "as_report"
    /\ call' = AssetsResult(failed)
    /\ pc' = IF call'.status = "err" THEN "done" ELSE "handle_modloader"
    /\ stages' = IF call'.status = "err" THEN stages ELSE Append(stages, "ensure_assets")
    /\ UNCHANGED <<fsVars, net, dl_ret, lib_i, satisfied, assetVars, cfgVars, ruleVars,
                   manifest, child, installer_runs, pureVars>>

(***************************************************************************)
(* launch: the stages after asset acquisition.  Each is one step whose     *)
(* outcome is success or an error that ends the launch.                    *)
(***************************************************************************)
\* mutant: the launch goes on after a stage returned an error
Stage_tolerant(at, op, next) ==
    /\ pc = at
    /\ \E ok \in BOOLEAN :
         /\ call' = IF ok THEN Ok(op) ELSE Err(op, Msg(op))
         /\ stages' = IF ok THEN Append(stages, op) ELSE stages
    /\ pc' = next
    /\ UNCHANGED <<fsVars, net, dl_ret, lib_i, satisfied, assetVars, cfgVars, ruleVars,
                   manifest, child, installer_runs, pureVars>>

Stage(at, op, next) ==
    /\ pc = at
    /\ \E ok \in BOOLEAN :
         IF ok
         THEN /\ pc' = next
              /\ call' = Ok(op)
              /\ stages' = Append(stages, op)
         ELSE /\ pc' = "done"
              /\ call' = Err(op, Msg(op))
              /\ UNCHANGED stages
    /\ UNCHANGED <<fsVars, net, dl_ret, lib_i, satisfied, assetVars, cfgVars, ruleVars,
                   manifest, child, installer_runs, pureVars>>

\* launch after handle_modloader returned Ok: update_mods is called only for
\* a modpack that lists mods
ModloaderDone ==
    /\ call' = Ok("handle_modloader")
    /\ stages' = Append(stages, "handle_modloader")
    /\ \E has_mods \in BOOLEAN :
         pc' = IF has_mods THEN "update_mods" ELSE "ensure_native_libraries"

\* no loader, or its marker jar exists: nothing to do; otherwise the
\* installer jar is requested
HandleModloader ==
    /\ pc = "handle_modloader"
    /\ IF loader = "none" \/ Exists(MarkerKey)
       THEN /\ ModloaderDone
            /\ UNCHANGED net
       ELSE /\ pc' = "install"
            /\ call' = Running("handle_modloader")
            /\ net' = Request(net, InstallerKey)
            /\ UNCHANGED stages
    /\ UNCHANGED <<fsVars, dl_ret, lib_i, satisfied, assetVars, cfgVars, ruleVars,
                   manifest, child, installer_runs, pureVars>>

\* outcomes of install_forge, install_fabric, install_neoforge:
\*   net      the request or the body read fails
\*   fs       the installer cannot be written to the temp directory
\*   spawn    java cannot be started
\*   nonzero  the installer ran and exited with a failure status
\*   zero     the installer ran and exited with success
InstallerOutcomes == {"net", "fs", "spawn", "nonzero", "zero"}

InstallerRan(out) == out \in {"nonzero", "zero"}

\* mutant: the exit status of the installer is not looked at
InstallerOk_anyexit(out) == out \in {"nonzero", "zero"}

\* status.success()
InstallerOk(out) == out = "zero"

\* the installer response arrives (its status is not looked at), is written
\* to the temp directory and run; the installer, a program of its own,
\* leaves the marker jar or not
Installer ==
    /\ pc = "install"
    /\ \E out \in InstallerOutcomes :
         /\ installer_runs' = IF InstallerRan(out) THEN Append(installer_runs, out)
                               ELSE installer_runs
         /\ \E marker \in BOOLEAN :
              disk' = IF InstallerRan(out) /\ marker THEN WriteFile(disk, MarkerKey)
                      ELSE disk
         /\ IF InstallerOk(out)
            THEN ModloaderDone
            ELSE /\ pc' = "done"
                 /\ call' = Err("handle_modloader", Msg("installer failed"))
                 /\ UNCHANGED stages
    /\ UNCHANGED <<bad, index_objects, net, dl_ret, lib_i, satisfied, assetVars, cfgVars,
                   ruleVars, manifest, child, pureVars>>

UpdateMods == Stage("update_mods", "update_mods", "ensure_native_libraries")

\* the loop reaches extract_native_library: a library passes the rule
\* filter, declares the classifier for the platform, and the archive exists
NativesExtracted(d, os, cpu) ==
    /\ \E i \in LibIds :
          should_include_library(Libraries[i], os, cpu) /\ Libraries[i].has_natives
    /\ d[ClassifierKey] > 0

\* the version JSON is read, <gameDir>/natives created and the archives that
\* exist extracted; an archive that cannot be opened or copied ends the launch
EnsureNativeLibraries ==
    /\ pc = "ensure_native_libraries"
    /\ IF ~Exists(JsonKey)
       THEN /\ pc' = "done"
            /\ call' = Err("ensure_native_libraries", Msg("Failed to read version JSON"))
            /\ UNCHANGED stages
       ELSE LET extracted == NativesExtracted(disk, target_os, target_arch)
            IN  \E out \in {"ok", "Failed to create natives directory"}
                           \cup (IF extracted THEN {"Failed to open zip archive"}
                                 ELSE {}) :
                  IF out = "ok"
                  THEN /\ pc' = "get_version_details"
                       /\ call' = Ok("ensure_native_libraries")
                       /\ stages' = stages
                                     \o (IF extracted THEN <<"extract_native_library">>
                                         ELSE <<>>)
                                     \o <<"ensure_native_libraries">>
                  ELSE /\ pc' = "done"
                       /\ call' = Err("ensure_native_libraries", Msg(out))
                       /\ UNCHANGED stages
    /\ UNCHANGED <<fsVars, net, dl_ret, lib_i, satisfied, assetVars, cfgVars, ruleVars,
                   manifest, child, installer_runs, pureVars>>

\* the version JSON is read, after download_minecraft_version if it is absent
GetVersionDetails ==
    /\ pc \in {"get_version_details", "gvd_read"}
    /\ IF pc = "gvd_read" \/ Exists(JsonKey)
       THEN /\ pc' = "build_launch_command"
            /\ call' = Ok("get_version_details")
            /\ stages' = Append(stages, "get_version_details")
            /\ UNCHANGED <<net, dl_ret>>
       ELSE /\ pc' = "dl_manifest"
            /\ call' = Running("get_version_details")
            /\ dl_ret' = "gvd_read"
            /\ net' = Request(net, ManifestKey)
            /\ UNCHANGED stages
    /\ UNCHANGED <<fsVars, lib_i, satisfied, assetVars, cfgVars, ruleVars, manifest, child, installer_runs, pureVars>>

\* the command is built from the options: the one error build_launch_command
\* has is that of options without a java_path
BuildLaunchCommand ==
    /\ pc = "build_launch_command"
    /\ IF java_path = NoneStr
       THEN /\ pc' = "done"
            /\ call' = Err("build_launch_command", Msg("Java path is required"))
            /\ UNCHANGED stages
       ELSE /\ pc' = "execute_command"
            /\ call' = Ok("build_launch_command")
            /\ stages' = Append(stages, "build_launch_command")
    /\ UNCHANGED <<fsVars, net, dl_ret, lib_i, satisfied, assetVars, cfgVars, ruleVars,
                   manifest, child, installer_runs, pureVars>>

\* the process is spawned and launch returns without waiting for it
ExecuteCommand ==
    /\ pc = "execute_command"
    /\ \E spawned \in BOOLEAN :
         /\ call' = IF spawned THEN Ok("launch")
                    ELSE Err("execute_command", Msg("Failed to launch Minecraft"))
         /\ stages' = IF spawned THEN Append(stages, "spawn") ELSE stages
         /\ child' = IF spawned THEN "running" ELSE child
    /\ pc' = "done"
    /\ UNCHANGED <<fsVars, net, dl_ret, lib_i, satisfied, assetVars, cfgVars, ruleVars,
                   manifest, installer_runs, pureVars>>

\* the game process, which nothing waits for, exits
ChildExit ==
    /\ child = "running"
    /\ child' = "exited"
    /\ UNCHANGED <<pc, call, fsVars, net, dl_ret, lib_i, satisfied, assetVars, cfgVars,
                   ruleVars, logVars, installer_runs, pureVars>>

(***************************************************************************)
(* Specification                                                           *)
(***************************************************************************)
Next ==
    \/ Launch
    \/ VerifyJava
    \/ GetModpack
    \/ EnsureMinecraftVersion
    \/ DlManifest
    \/ DlDetails
    \/ DlJar
    \/ DlJson
    \/ EnsureLibraries
    \/ LibraryStep
    \/ LibraryRespond
    \/ LibrariesDone
    \/ EnsureAssets
    \/ AssetIndexRespond
    \/ AssetsScan
    \/ StartBatch
    \/ \E i \in DOMAIN tasks : Respond(i)
    \/ \E i \in DOMAIN tasks : Wake(i)
    \/ BatchDone
    \/ PauseElapsed
    \/ AssetsReport
    \/ HandleModloader
    \/ Installer
    \/ UpdateMods
    \/ EnsureNativeLibraries
    \/ GetVersionDetails
    \/ BuildLaunchCommand
    \/ ExecuteCommand
    \/ ChildExit

Spec == Init /\ [][Next]_vars

(***************************************************************************)
(* Launches on a directory as it may be found: ~/.minecraft is shared with *)
(* other launchers and with the modpack downloader, which writes the       *)
(* client jar without the version JSON, so the jar and the version JSON    *)
(* are each present or absent at the first launch.                         *)
(***************************************************************************)
ResolveInit ==
    /\ pc = "idle"
    /\ call = Running("none")
    /\ \E jar \in 0..1 : \E json \in 0..1 :
         disk = [p \in Paths |-> IF p = JarKey THEN jar
                                 ELSE IF p = JsonKey THEN json ELSE 0]
    /\ bad = {}
    /\ index_objects = <<>>
    /\ net = [u \in Urls |-> 0]
    /\ dl_ret = "none"
    /\ lib_i = 0
    /\ satisfied = FALSE
    /\ work = <<>>
    /\ tasks = <<>>
    /\ chunk = 0
    /\ pauses = 0
    /\ downloaded = 0
    /\ failed = <<>>
    /\ entry_limit = MaxResolveEntries
    /\ manifest = <<>>
    /\ stages = <<>>
    /\ rules_arg = <<>>
    /\ applies = FALSE
    /\ child = "none"
    /\ installer_runs = <<>>
    \* every platform with one loader, every loader on one platform
    /\ \E p \in Platforms : \E l \in Loaders :
         /\ p = <<"linux", "x86_64">> \/ l = "fabric"
         /\ target_os = p[1] /\ target_arch = p[2]
         /\ loader = l
    /\ java_path = "java"
    /\ PureIdle

ResolveSpec == ResolveInit /\ [][Next]_vars

(***************************************************************************)
(* Launches with the options and the libraries directory as they may be:   *)
(* the caller gives a java_path or none, and something other than the      *)
(* launcher has put the classifier archive into libraries/ or has not.     *)
(***************************************************************************)
LaunchInit ==
    /\ pc = "idle"
    /\ call = Running("none")
    /\ \E archive \in 0..1 :
         disk = [p \in Paths |-> IF p = ClassifierKey THEN archive ELSE 0]
    /\ bad = {}
    /\ index_objects = <<>>
    /\ net = [u \in Urls |-> 0]
    /\ dl_ret = "none"
    /\ lib_i = 0
    /\ satisfied = FALSE
    /\ work = <<>>
    /\ tasks = <<>>
    /\ chunk = 0
    /\ pauses = 0
    /\ downloaded = 0
    /\ failed = <<>>
    /\ target_os = "linux"
    /\ target_arch = "x86_64"
    /\ entry_limit = MaxResolveEntries
    /\ manifest = <<>>
    /\ stages = <<>>
    /\ rules_arg = <<>>
    /\ applies = FALSE
    /\ child = "none"
    /\ installer_runs = <<>>
    /\ loader = "fabric"
    /\ java_path \in {NoneStr, "java"}
    /\ PureIdle

LaunchSpec == LaunchInit /\ [][Next]_vars


(***************************************************************************)
(* The asset engine on its own: ensure_assets is public, and is invoked    *)
(* here, any number of times, on a directory whose version was resolved.   *)
(***************************************************************************)
ResolvedDisk ==
    [p \in Paths |->
       IF p \in {JarKey, JsonKey}
            \/ \E i \in LibIds : p = LibKey(i) /\ LibraryWanted(i, "linux", "x86_64")
       THEN 1 ELSE 0]

AssetInit ==
    /\ pc = "ensure_assets"
    /\ call = Running("none")
    /\ disk = ResolvedDisk
    /\ bad = {}
    /\ index_objects = <<>>
    /\ net = [u \in Urls |-> 0]
    /\ dl_ret = "none"
    /\ lib_i = 0
    /\ satisfied = FALSE
    /\ work = <<>>
    /\ tasks = <<>>
    /\ chunk = 0
    /\ pauses = 0
    /\ downloaded = 0
    /\ failed = <<>>
    /\ target_os = "linux"
    /\ target_arch = "x86_64"
    /\ entry_limit = MaxEntries
    /\ manifest = <<>>
    /\ stages = <<>>
    /\ rules_arg = <<>>
    /\ applies = FALSE
    /\ child = "none"
    /\ installer_runs = <<>>
    /\ loader = "none"
    /\ java_path = "java"
    /\ PureIdle

\* ensure_assets has returned and is invoked again
CallEnsureAssets ==
    /\ call.op = "ensure_assets"
    /\ call.status \in {"ok", "err"}
    /\ pc' = "ensure_assets"
    /\ call' = Running("none")
    /\ net' = [u \in Urls |-> 0]
    /\ satisfied' = FALSE
    /\ work' = <<>>
    /\ tasks' = <<>>
    /\ chunk' = 0
    /\ pauses' = 0
    /\ downloaded' = 0
    /\ failed' = <<>>
    /\ stages' = <<>>
    /\ UNCHANGED <<fsVars, dl_ret, lib_i, cfgVars, ruleVars, manifest, child, installer_runs, pureVars>>

AssetNext ==
    \/ CallEnsureAssets
    \/ EnsureAssets
    \/ AssetIndexRespond
    \/ AssetsScan
    \/ StartBatch
    \/ \E i \in DOMAIN tasks : Respond(i)
    \/ \E i \in DOMAIN tasks : Wake(i)
    \/ BatchDone
    \/ PauseElapsed
    \/ AssetsReport

AssetSpec == AssetInit /\ [][AssetNext]_vars


(***************************************************************************)
(* The error report on its own: the engine stands at the end of its loop   *)
(* over the batches, with n work-list items of which f exhausted their     *)
(* attempts, their messages in one of the completion orders.               *)
(***************************************************************************)
ErrTask == [phase |-> "err", attempt |-> max_attempts, sent |-> max_attempts,
            fails |-> max_attempts, slept |-> max_attempts - 1, plan |-> 0]
OkTask == [phase |-> "ok", attempt |-> 1, sent |-> 1, fails |-> 0, slept |-> 0,
           plan |-> 0]

ReportInit ==
    \E n \in 1..MaxFailed : \E f \in 0..n : \E r \in 0..(IF f = 0 THEN 0 ELSE f - 1) :
      /\ pc = "as_report"
      /\ call = Running("ensure_assets")
      /\ index_objects = Distinct(n)
      /\ disk = [p \in Paths |->
                   IF p = IndexKey \/ (\E h \in (f + 1)..n : p = ObjKey(h))
                   THEN 1 ELSE ResolvedDisk[p]]
      /\ bad = {}
      /\ net = [u \in Urls |->
                  IF u = IndexKey \/ (\E h \in (f + 1)..n : u = ObjKey(h)) THEN 1
                  ELSE IF \E h \in 1..f : u = ObjKey(h) THEN max_attempts
                  ELSE 0]
      /\ dl_ret = "none"
      /\ lib_i = 0
      /\ satisfied = FALSE
      /\ work = [k \in 1..n |-> [name |-> k, hash |-> k]]
      /\ tasks = [k \in 1..n |-> IF k <= f THEN ErrTask ELSE OkTask]
      /\ chunk = ChunkOf(n)
      /\ pauses = ChunkOf(n)
      /\ downloaded = n - f
      /\ failed = [k \in 1..f |-> FailureMsg("http", ((k - 1 + r) % f) + 1, max_attempts)]
      /\ target_os = "linux"
      /\ target_arch = "x86_64"
      /\ entry_limit = MaxFailed
      /\ manifest = <<>>
      /\ stages = <<>>
      /\ rules_arg = <<>>
      /\ applies = FALSE
      /\ child = "none"
      /\ installer_runs = <<>>
      /\ loader = "none"
      /\ java_path = "java"
      /\ PureIdle

ReportNext == AssetsReport

ReportSpec == ReportInit /\ [][ReportNext]_vars


(***************************************************************************)
(* Rule evaluation on its own: should_apply_rule is called once with a     *)
(* rule list of a version document on one of the build platforms.          *)
(***************************************************************************)
Rule(action, os_name, os_arch, features) ==
    [action |-> action, has_os |-> (os_name # NoneStr \/ os_arch # NoneStr),
     os_name |-> os_name, os_arch |-> os_arch, features |-> features]

\* conditions a rule may carry: <<os.name, os.arch, features>>
RuleConditions ==
    { <<NoneStr, NoneStr, {}>>,
      <<"linux", NoneStr, {}>>,
      <<"windows", NoneStr, {}>>,
      <<"osx", NoneStr, {}>>,
      <<"solaris", NoneStr, {}>>,
      <<NoneStr, "x64", {}>>,
      <<NoneStr, "ppc", {}>>,
      <<"linux", "x86", {}>>,
      <<NoneStr, NoneStr, {<<"is_demo_user", TRUE>>}>>,
      <<NoneStr, NoneStr, {<<"has_custom_resolution", FALSE>>}>>,
      <<NoneStr, NoneStr, {<<"has_server_pack", TRUE>>}>>,
      <<"linux", NoneStr, {<<"is_demo_user", FALSE>>, <<"is_quick_play_realms", TRUE>>}>> }

RuleChoices ==
    {Rule(a, c[1], c[2], c[3]) : a \in {"allow", "disallow"}, c \in RuleConditions}

RuleLists == UNION {[1..n -> RuleChoices] : n \in 0..MaxRules}

RuleInit ==
    /\ pc = "rule_call"
    /\ call = Running("should_apply_rule")
    /\ rules_arg \in RuleLists
    /\ applies = FALSE
    /\ \E p \in Platforms : target_os = p[1] /\ target_arch = p[2]
    /\ disk = [p \in Paths |-> 0]
    /\ bad = {}
    /\ index_objects = <<>>
    /\ net = [u \in Urls |-> 0]
    /\ dl_ret = "none"
    /\ lib_i = 0
    /\ satisfied = FALSE
    /\ work = <<>>
    /\ tasks = <<>>
    /\ chunk = 0
    /\ pauses = 0
    /\ downloaded = 0
    /\ failed = <<>>
    /\ entry_limit = 0
    /\ manifest = <<>>
    /\ stages = <<>>
    /\ child = "none"
    /\ installer_runs = <<>>
    /\ loader = "none"
    /\ java_path = "java"
    /\ PureIdle

ApplyRules ==
    /\ pc = "rule_call"
    /\ applies' = should_apply_rule(rules_arg, target_os, target_arch)
    /\ pc' = "rule_done"
    /\ call' = Ok("should_apply_rule")
    /\ UNCHANGED <<fsVars, net, dl_ret, lib_i, satisfied, assetVars, cfgVars, rules_arg,
                   logVars, child, installer_runs, pureVars>>

RuleNext == ApplyRules

RuleSpec == RuleInit /\ [][RuleNext]_vars


(***************************************************************************)
(* The command builder.  A string is the sequence of its pieces: literal   *)
(* text, a placeholder such as "${version_name}", or white space; an       *)
(* argument list is a sequence of strings.                                 *)
(***************************************************************************)
\* str::replace: every occurrence of the placeholder becomes the value
Replace(arg, token, value) ==
    [i \in DOMAIN arg |-> IF arg[i] = token THEN value ELSE arg[i]]

\* mutant: an unset value has no default
unwrap_or_unset(value, default) == value

\* Option::unwrap_or on an option that is NoneStr when unset
unwrap_or(value, default) == IF value = NoneStr THEN default ELSE value

\* game_dir.join("natives") and minecraft_dir.join("libraries"), game_dir
\* being "game"
NativesDir == "game/natives"
LibrariesDir == "libraries"
\* modpack.minecraft_version, which is version_details.id, and main_class
VersionName == "1.20.1"
MainClass == "net.minecraft.client.main.Main"

process_jvm_argument(arg, options) ==
    Replace(arg, "${natives_directory}", NativesDir)

\* the asset index id is read from the version JSON; the version id stands
\* in for it when the JSON cannot be read or parsed
asset_index_name(d, b) ==
    IF d[JsonKey] > 0 /\ JsonKey \notin b THEN "5" ELSE VersionName

process_game_argument(arg, options, d, b) ==
    LET a1 == Replace(arg, "${auth_player_name}", unwrap_or(options.username, "Player"))
        a2 == Replace(a1, "${version_name}", VersionName)
        a3 == Replace(a2, "${game_directory}", "game")
        a4 == Replace(a3, "${assets_root}", "assets")
        a5 == Replace(a4, "${assets_index_name}", asset_index_name(d, b))
        a6 == Replace(a5, "${auth_uuid}",
                      unwrap_or(options.uuid, "00000000-0000-0000-0000-000000000000"))
        a7 == Replace(a6, "${auth_access_token}", unwrap_or(options.access_token, "token"))
        a8 == Replace(a7, "${clientid}", "clientid")
        a9 == Replace(a8, "${auth_xuid}", "xuid")
        a10 == Replace(a9, "${user_type}", "msa")
        a11 == Replace(a10, "${version_type}", "release")
        a12 == Replace(a11, "${resolution_width}", unwrap_or(options.width, "1280"))
        a13 == Replace(a12, "${resolution_height}", unwrap_or(options.height, "720"))
    IN  Replace(a13, "${natives_directory}", NativesDir)

should_skip_jvm_argument(arg, os) ==
    os # "macos" /\ arg = <<"-XstartOnFirstThread">>

\* Argument::String(s) and Argument::Object {rules, value}; the value of an
\* object is one string or an array of strings
StrArg(s) == [conditional |-> FALSE, rules |-> <<>>, is_array |-> FALSE, values |-> <<s>>]
CondArg(rules, is_array, values) ==
    [conditional |-> TRUE, rules |-> rules, is_array |-> is_array, values |-> values]

\* the strings of one arguments.jvm entry that are emitted, in order
RECURSIVE JvmValues(_, _, _)
JvmValues(values, options, os) ==
    IF values = <<>> THEN <<>>
    ELSE (IF should_skip_jvm_argument(Head(values), os) THEN <<>>
          ELSE <<process_jvm_argument(Head(values), options)>>)
         \o JvmValues(Tail(values), options, os)

\* mutant: a conditional entry is emitted whatever its rules say
JvmEntry_unconditional(entry, options, os, cpu) ==
    JvmValues(entry.values, options, os)

JvmEntry(entry, options, os, cpu) ==
    IF entry.conditional /\ ~should_apply_rule(entry.rules, os, cpu) THEN <<>>
    ELSE JvmValues(entry.values, options, os)

RECURSIVE JvmEntries(_, _, _, _)
JvmEntries(list, options, os, cpu) ==
    IF list = <<>> THEN <<>>
    ELSE JvmEntry(Head(list), options, os, cpu)
         \o JvmEntries(Tail(list), options, os, cpu)

\* mutant: the platform's separator is taken to be that of unix
classpath_separator_unix(os) == ":"

classpath_separator(os) == IF os = "windows" THEN ";" ELSE ":"

\* the libraries on the classpath from the i-th on, each by the name that
\* stands for libraries/<artifact.path>
RECURSIVE ClasspathParts(_, _, _, _)
ClasspathParts(i, d, os, cpu) ==
    IF i > Len(Libraries) THEN <<>>
    ELSE (IF should_include_library(Libraries[i], os, cpu) /\ Libraries[i].has_path
             /\ d[LibKey(i)] > 0
          THEN <<Libraries[i].name>> ELSE <<>>) \o ClasspathParts(i + 1, d, os, cpu)

\* Vec::join
RECURSIVE Join(_, _)
Join(parts, sep) ==
    IF parts = <<>> THEN <<>>
    ELSE IF Len(parts) = 1 THEN parts
    ELSE <<Head(parts), sep>> \o Join(Tail(parts), sep)

build_classpath(d, os, cpu) ==
    Join(<<"client.jar">> \o ClasspathParts(1, d, os, cpu), classpath_separator(os))

add_jvm_arguments(input, d, os, cpu) ==
    (IF input.options.max_memory # NoneStr
     THEN << <<"-Xmx", input.options.max_memory, "M">> >> ELSE <<>>)
    \o (IF input.options.min_memory # NoneStr
        THEN << <<"-Xms", input.options.min_memory, "M">> >> ELSE <<>>)
    \o (IF input.has_arguments
        THEN JvmEntries(input.jvm, input.options, os, cpu) ELSE <<>>)
    \o << <<"-Djava.library.path=", LibrariesDir>>,
          <<"-Djava.library.path=", LibrariesDir, ";", NativesDir>>,
          <<"-cp">>,
          build_classpath(d, os, cpu) >>

RECURSIVE GameValues(_, _, _, _)
GameValues(values, options, d, b) ==
    IF values = <<>> THEN <<>>
    ELSE <<process_game_argument(Head(values), options, d, b)>>
         \o GameValues(Tail(values), options, d, b)

GameEntry(entry, options, d, b, os, cpu) ==
    IF entry.conditional /\ ~should_apply_rule(entry.rules, os, cpu) THEN <<>>
    ELSE GameValues(entry.values, options, d, b)

RECURSIVE GameEntries(_, _, _, _, _, _)
GameEntries(list, options, d, b, os, cpu) ==
    IF list = <<>> THEN <<>>
    ELSE GameEntry(Head(list), options, d, b, os, cpu)
         \o GameEntries(Tail(list), options, d, b, os, cpu)

\* the words of s from piece k on; cur is the word being read
RECURSIVE SplitFrom(_, _, _)
SplitFrom(s, k, cur) ==
    IF k > Len(s) THEN (IF cur = <<>> THEN <<>> ELSE <<cur>>)
    ELSE IF s[k] \in {" ", "\t"}
         THEN (IF cur = <<>> THEN <<>> ELSE <<cur>>) \o SplitFrom(s, k + 1, <<>>)
         ELSE SplitFrom(s, k + 1, Append(cur, s[k]))

\* as str::split(' '): every white space piece ends a word, empty or not
RECURSIVE SplitEach(_, _, _)
SplitEach(s, k, cur) ==
    IF k > Len(s) THEN <<cur>>
    ELSE IF s[k] \in {" ", "\t"} THEN <<cur>> \o SplitEach(s, k + 1, <<>>)
    ELSE SplitEach(s, k + 1, Append(cur, s[k]))

\* mutant: the legacy string is split at every single white space
split_whitespace_each(s) == SplitEach(s, 1, <<>>)

\* str::split_whitespace
split_whitespace(s) == SplitFrom(s, 1, <<>>)

add_game_arguments(input, d, b, os, cpu) ==
    IF input.has_arguments
    THEN GameEntries(input.game, input.options, d, b, os, cpu)
    ELSE IF input.has_legacy
    THEN GameValues(split_whitespace(input.legacy), input.options, d, b)
    ELSE <<>>

build_launch_command(input, d, b, os, cpu) ==
    IF input.options.java_path = NoneStr
    THEN [status |-> "err", program |-> NoneStr, args |-> <<>>,
          msg |-> "Java path is required"]
    ELSE [status |-> "ok", program |-> input.options.java_path,
          args |-> add_jvm_arguments(input, d, os, cpu)
                     \o << <<MainClass>> >>
                     \o add_game_arguments(input, d, b, os, cpu),
          msg |-> NoneStr]

(***************************************************************************)
(* The command builder on its own: build_launch_command is called once     *)
(* with launch options and a version document, on a directory in which     *)
(* some libraries exist.                                                   *)
(***************************************************************************)
LaunchOptions(java, max, min, name, uuid, token, width, height) ==
    [java_path |-> java, max_memory |-> max, min_memory |-> min, username |-> name,
     uuid |-> uuid, access_token |-> token, width |-> width, height |-> height]

OptionChoices ==
    { LaunchOptions("java", "2048", "512", "Steve", "u-1", "t-1", "1920", "1080"),
      LaunchOptions("java", NoneStr, NoneStr, NoneStr, "u-1", NoneStr, NoneStr, NoneStr),
      LaunchOptions("java", "2048", NoneStr, "Steve", NoneStr, "t-1", NoneStr, "1080"),
      LaunchOptions("java", NoneStr, "512", NoneStr, NoneStr, NoneStr, "1920", NoneStr),
      LaunchOptions(NoneStr, NoneStr, NoneStr, NoneStr, NoneStr, NoneStr, NoneStr, NoneStr),
      \* a user-chosen name that reads as a placeholder
      LaunchOptions("java", NoneStr, NoneStr, "${auth_access_token}", "u-1", "t-1",
                    NoneStr, NoneStr) }

JvmChoices ==
    { StrArg(<<"-XstartOnFirstThread">>),
      StrArg(<<"-Djava.library.path=", "${natives_directory}">>),
      CondArg(<<Rule("allow", "windows", NoneStr, {})>>, FALSE,
              << <<"-XX:HeapDumpPath=dump">> >>),
      CondArg(<<Rule("allow", NoneStr, NoneStr, {})>>, TRUE,
              << <<"-Djna.tmpdir=", "${natives_directory}">>,
                 <<"-Dclient=", "${version_name}">> >>),
      CondArg(<<Rule("allow", NoneStr, NoneStr, {})>>, FALSE,
              << <<"-XstartOnFirstThread">> >>) }

AllPlaceholders ==
    <<"${auth_player_name}", "${version_name}", "${game_directory}", "${assets_root}",
      "${assets_index_name}", "${auth_uuid}", "${auth_access_token}", "${clientid}",
      "${auth_xuid}", "${user_type}", "${version_type}", "${resolution_width}",
      "${resolution_height}", "${natives_directory}">>

GameChoices ==
    { StrArg(<<"${auth_player_name}", " ", "${version_name}">>),
      StrArg(AllPlaceholders),
      CondArg(<<Rule("allow", NoneStr, NoneStr, {<<"is_demo_user", TRUE>>})>>, FALSE,
              << <<"--demo">> >>),
      CondArg(<<Rule("allow", "linux", NoneStr, {})>>, TRUE,
              << <<"--width">>, <<"${resolution_width}">> >>) }

LegacyChoices ==
    { <<"--username", " ", "${auth_player_name}", " ", "\t", "--version", " ",
        "${version_name}">>,
      <<" ", "--gameDir", " ", "${game_directory}", "/", "saves", " ">>,
      <<>> }

ListsOf(S, n) == UNION {[1..m -> S] : m \in 0..n}

\* a version document
Document(has_arguments, jvm, game, has_legacy, legacy) ==
    [has_arguments |-> has_arguments, jvm |-> jvm, game |-> game,
     has_legacy |-> has_legacy, legacy |-> legacy]

\* the version documents: with an arguments block whose jvm list or whose
\* game list varies, with the legacy string as well, with the legacy
\* string alone, with neither
DocumentChoices ==
    {Document(TRUE, j,
              <<CondArg(<<Rule("allow", "linux", NoneStr, {})>>, TRUE,
                        << <<"--width">>, <<"${resolution_width}">> >>)>>,
              FALSE, <<>>) : j \in ListsOf(JvmChoices, MaxJvmArgs)}
    \cup {Document(TRUE, <<>>, g, FALSE, <<>>) : g \in ListsOf(GameChoices, MaxGameArgs)}
    \cup {Document(TRUE, <<>>, g, TRUE, <<"--legacy", " ", "${version_name}">>) :
             g \in ListsOf(GameChoices, MaxGameArgs)}
    \cup {Document(FALSE, <<>>, <<>>, TRUE, l) : l \in LegacyChoices}
    \cup {Document(FALSE, <<>>, <<>>, FALSE, <<>>)}

\* the files that exist: the version JSON and the client jar or neither,
\* and some of the libraries
CommandDisks ==
    {[p \in Paths |-> IF p \in present THEN 1 ELSE 0] :
        present \in { {JarKey, JsonKey, LibKey(1), LibKey(2), LibKey(4)},
                      {JarKey, JsonKey, LibKey(1)},
                      {LibKey(2), LibKey(4)} }}

CommandInit ==
    /\ pc = "command_call"
    /\ call = Running("build_launch_command")
    /\ \E o \in OptionChoices : \E doc \in DocumentChoices :
         cmd_in = [options |-> o, has_arguments |-> doc.has_arguments, jvm |-> doc.jvm,
                   game |-> doc.game, has_legacy |-> doc.has_legacy,
                   legacy |-> doc.legacy]
    /\ command = <<>>
    /\ disk \in CommandDisks
    /\ \E p \in Platforms : target_os = p[1] /\ target_arch = p[2]
    /\ bad = {}
    /\ index_objects = <<>>
    /\ net = [u \in Urls |-> 0]
    /\ dl_ret = "none"
    /\ lib_i = 0
    /\ satisfied = FALSE
    /\ work = <<>>
    /\ tasks = <<>>
    /\ chunk = 0
    /\ pauses = 0
    /\ downloaded = 0
    /\ failed = <<>>
    /\ entry_limit = 0
    /\ manifest = <<>>
    /\ stages = <<>>
    /\ rules_arg = <<>>
    /\ applies = FALSE
    /\ child = "none"
    /\ loader = "none"
    /\ java_path = "java"
    /\ installer_runs = <<>>
    /\ nat_in = <<>>
    /\ natives = <<>>
    /\ AppIdle

BuildCommand ==
    /\ pc = "command_call"
    /\ command' = build_launch_command(cmd_in, disk, bad, target_os, target_arch)
    /\ pc' = "command_done"
    /\ call' = IF command'.status = "ok" THEN Ok("build_launch_command")
               ELSE Err("build_launch_command", Msg(command'.msg))
    /\ UNCHANGED <<fsVars, net, dl_ret, lib_i, satisfied, assetVars, cfgVars, ruleVars,
                   logVars, child, installer_runs, cmd_in, nat_in, natives, appVars>>

CommandNext == BuildCommand

CommandSpec == CommandInit /\ [][CommandNext]_vars


(***************************************************************************)
(* ensure_native_libraries and extract_native_library.  The name of an     *)
(* archive entry is the sequence of its pieces: directory and file names,  *)
(* "/" and the extensions.  A file of the natives directory is the pair of *)
(* its name and its content, the content being the archive and the entry   *)
(* it was copied from, or <<>> when it was created and nothing written.    *)
(***************************************************************************)
PlatformKey(os) ==
    CASE os = "windows" -> "natives-windows"
      [] os = "linux"   -> "natives-linux"
      [] os = "macos"   -> "natives-macos"

\* mutant: an entry is taken when an extension occurs anywhere in its name
IsNativeFile_contains(name) ==
    \E i \in DOMAIN name : name[i] \in {".dll", ".so", ".dylib"}

\* the ends_with test on the name of an entry
IsNativeFile(name) ==
    name # <<>> /\ name[Len(name)] \in {".dll", ".so", ".dylib"}

\* file_path.split('/').last()
output_name(name) ==
    LET slashes == {k \in DOMAIN name : name[k] = "/"}
    IN  IF slashes = {} THEN name
        ELSE SubSeq(name, (CHOOSE k \in slashes : \A j \in slashes : j <= k) + 1,
                    Len(name))

\* File::create followed by write_all: the file is replaced
WriteNative(files, name, content) ==
    {f \in files : f[1] # name} \cup {<<name, content>>}

NativeErr(st, text) == [st EXCEPT !.status = "err", !.msg = text]

\* the loop over the entries from the i-th on; fail names the native file,
\* counted over the call, at which the filesystem fails, and how
RECURSIVE ExtractFrom(_, _, _, _, _)
ExtractFrom(entries, i, path, st, fail) ==
    IF i > Len(entries) THEN st
    ELSE IF ~IsNativeFile(entries[i]) THEN ExtractFrom(entries, i + 1, path, st, fail)
    ELSE LET n == st.attempts + 1
             at == [st EXCEPT !.attempts = n]
         IN  IF fail.at = n /\ fail.kind = "create"
             THEN NativeErr(at, "Failed to create native file")
             ELSE IF fail.at = n /\ fail.kind = "read"
             THEN NativeErr([at EXCEPT !.files =
                                WriteNative(st.files, output_name(entries[i]), <<>>)],
                            "Failed to read native file from archive")
             ELSE ExtractFrom(entries, i + 1, path,
                              [at EXCEPT !.files =
                                  WriteNative(st.files, output_name(entries[i]),
                                            <<path>> \o entries[i])],
                              fail)

extract_native_library(archive, path, st, fail) ==
    IF archive.state = "corrupt" THEN NativeErr(st, "Failed to open zip archive")
    ELSE ExtractFrom(archive.entries, 1, path, st, fail)

\* mutant: the classifiers of the library are not consulted
has_classifier_any(library, native_path) == TRUE

\* downloads.classifiers has an entry under the name the natives map gives
has_classifier(library, native_path) ==
    library.has_classifiers /\ native_path \in library.classifiers

\* natives.get(platform_key)
native_path_of(library, os) ==
    IF \E e \in library.natives : e[1] = PlatformKey(os)
    THEN (CHOOSE e \in library.natives : e[1] = PlatformKey(os))[2]
    ELSE NoneStr

RECURSIVE NativeLoop(_, _, _, _, _, _)
NativeLoop(libs, i, input, os, cpu, st) ==
    IF i > Len(libs) \/ st.status = "err" THEN st
    ELSE LET library == libs[i]
             native_path == native_path_of(library, os)
         IN  IF /\ should_include_library(library, os, cpu)
                /\ library.has_natives
                /\ native_path # NoneStr
                /\ has_classifier(library, native_path)
                /\ input.archives[native_path].state # "absent"
             THEN NativeLoop(libs, i + 1, input, os, cpu,
                             extract_native_library(input.archives[native_path],
                                                    native_path, st, input.fail))
             ELSE NativeLoop(libs, i + 1, input, os, cpu, st)

ensure_native_libraries(input, os, cpu) ==
    LET before == [status |-> "ok", msg |-> NoneStr, created |-> FALSE,
                   files |-> input.files, attempts |-> 0]
    IN  IF input.json = "missing" THEN NativeErr(before, "Failed to read version JSON")
        ELSE IF input.json = "bad"
        THEN NativeErr(before, "Failed to parse version JSON")
        ELSE IF ~input.mkdir_ok
        THEN NativeErr(before, "Failed to create natives directory")
        ELSE NativeLoop(input.libs, 1, input, os, cpu,
                        [before EXCEPT !.created = TRUE])

(***************************************************************************)
(* Native extraction on its own: ensure_native_libraries is called once on *)
(* a version document and a libraries directory as they may be found.      *)
(***************************************************************************)
NativeLibrary(has_rules, rules, has_natives, map, has_classifiers, classifiers) ==
    [has_rules |-> has_rules, rules |-> rules, has_natives |-> has_natives,
     natives |-> map, has_classifiers |-> has_classifiers,
     classifiers |-> classifiers]

ClassifierNames == {"natives-windows", "natives-linux", "natives-macos"}

\* a natives map keyed as the loop looks it up, and one keyed by the names
\* of the operating systems
ByClassifier == {<<c, c>> : c \in ClassifierNames}
ByOsName ==
    {<<"windows", "natives-windows">>, <<"linux", "natives-linux">>,
     <<"osx", "natives-macos">>}

NativeLibraryChoices ==
    { NativeLibrary(FALSE, <<>>, TRUE, ByClassifier, TRUE, ClassifierNames),
      NativeLibrary(TRUE, <<OsRule("allow", "windows")>>, TRUE, ByClassifier, TRUE,
                    ClassifierNames),
      NativeLibrary(FALSE, <<>>, FALSE, {}, TRUE, ClassifierNames),
      NativeLibrary(FALSE, <<>>, TRUE, ByOsName, TRUE, ClassifierNames),
      NativeLibrary(FALSE, <<>>, TRUE, ByClassifier, TRUE, {"natives-osx"}) }

EntryNames ==
    { <<"sub", "/", "dir", "/", "libfoo", ".so">>,
      <<"libfoo", ".so">>,
      <<"readme", ".txt">>,
      <<"lwjgl", ".dll">>,
      <<"libbaz", ".dylib">>,
      <<"META-INF", "/", "libbaz", ".dylib", ".sha1">> }

ArchiveChoices ==
    {[state |-> "absent", entries |-> <<>>], [state |-> "corrupt", entries |-> <<>>]}
    \cup {[state |-> "zip", entries |-> e] : e \in ListsOf(EntryNames, MaxArchiveEntries)}

NoFailure == [at |-> 0, kind |-> "none"]

\* the version JSON, the creation of the natives directory, the failure of
\* the filesystem and the files the natives directory holds from before
NativeSettings ==
    { [json |-> "ok", mkdir_ok |-> TRUE, fail |-> NoFailure, files |-> {}],
      [json |-> "ok", mkdir_ok |-> TRUE, fail |-> NoFailure,
       files |-> {<< <<"libfoo", ".so">>, <<"old">> >>}],
      [json |-> "ok", mkdir_ok |-> TRUE, fail |-> [at |-> 1, kind |-> "create"],
       files |-> {}],
      [json |-> "ok", mkdir_ok |-> TRUE, fail |-> [at |-> 2, kind |-> "read"],
       files |-> {}],
      [json |-> "missing", mkdir_ok |-> TRUE, fail |-> NoFailure, files |-> {}],
      [json |-> "bad", mkdir_ok |-> TRUE, fail |-> NoFailure, files |-> {}],
      [json |-> "ok", mkdir_ok |-> FALSE, fail |-> NoFailure, files |-> {}] }

NativeInit ==
    /\ pc = "natives_call"
    /\ call = Running("ensure_native_libraries")
    /\ \E p \in Platforms : target_os = p[1] /\ target_arch = p[2]
    /\ \E libs \in ListsOf(NativeLibraryChoices, MaxNativeLibs) :
       \E archive \in ArchiveChoices : \E env \in NativeSettings :
         nat_in = [libs |-> libs,
                   archives |-> [c \in ClassifierNames |->
                                   IF c = PlatformKey(target_os) THEN archive
                                   ELSE [state |-> "absent", entries |-> <<>>]],
                   json |-> env.json, mkdir_ok |-> env.mkdir_ok, fail |-> env.fail,
                   files |-> env.files]
    /\ natives = <<>>
    /\ cmd_in = <<>>
    /\ command = <<>>
    /\ disk = [p \in Paths |-> 0]
    /\ bad = {}
    /\ index_objects = <<>>
    /\ net = [u \in Urls |-> 0]
    /\ dl_ret = "none"
    /\ lib_i = 0
    /\ satisfied = FALSE
    /\ work = <<>>
    /\ tasks = <<>>
    /\ chunk = 0
    /\ pauses = 0
    /\ downloaded = 0
    /\ failed = <<>>
    /\ entry_limit = 0
    /\ manifest = <<>>
    /\ stages = <<>>
    /\ rules_arg = <<>>
    /\ applies = FALSE
    /\ child = "none"
    /\ loader = "none"
    /\ java_path = "java"
    /\ installer_runs = <<>>
    /\ AppIdle

CallEnsureNativeLibraries ==
    /\ pc = "natives_call"
    /\ natives' = ensure_native_libraries(nat_in, target_os, target_arch)
    /\ pc' = "natives_done"
    /\ call' = IF natives'.status = "ok" THEN Ok("ensure_native_libraries")
               ELSE Err("ensure_native_libraries", Msg(natives'.msg))
    /\ UNCHANGED <<fsVars, net, dl_ret, lib_i, satisfied, assetVars, cfgVars, ruleVars,
                   logVars, child, installer_runs, cmd_in, command, nat_in, appVars>>

NativeNext == CallEnsureNativeLibraries

NativeSpec == NativeInit /\ [][NativeNext]_vars


(***************************************************************************)
(* The application shell (lib.rs, downloader.rs).  Each specification       *)
(* below examines one command, or the commands that share one store, on    *)
(* its own: no launch is running.                                          *)
(***************************************************************************)
EngineIdle ==
    /\ pc = "app"
    /\ call = Running("none")
    /\ disk = [p \in Paths |-> 0]
    /\ bad = {}
    /\ index_objects = <<>>
    /\ net = [u \in Urls |-> 0]
    /\ dl_ret = "none"
    /\ lib_i = 0
    /\ satisfied = FALSE
    /\ work = <<>>
    /\ tasks = <<>>
    /\ chunk = 0
    /\ pauses = 0
    /\ downloaded = 0
    /\ failed = <<>>
    /\ target_os = "linux"
    /\ target_arch = "x86_64"
    /\ entry_limit = 0
    /\ manifest = <<>>
    /\ stages = <<>>
    /\ rules_arg = <<>>
    /\ applies = FALSE
    /\ child = "none"
    /\ loader = "none"
    /\ java_path = "java"
    /\ installer_runs = <<>>
    /\ BuilderIdle

engineVars == <<pc, call, fsVars, net, dl_ret, lib_i, satisfied, assetVars, cfgVars,
                ruleVars, logVars, child, installer_runs, cmd_in, command, nat_in,
                natives>>

(***************************************************************************)
(* required_java_version.  A version string is the sequence of the parts    *)
(* between its dots; a part is the number it spells, or NotANumber when     *)
(* parse::<u32> rejects it.                                                 *)
(***************************************************************************)
NotANumber == -1

\* parts.get(k).and_then(|s| s.parse::<u32>().ok()).unwrap_or(0)
PartOrZero(parts, k) ==
    IF k <= Len(parts) /\ parts[k] # NotANumber THEN parts[k] ELSE 0

\* the guard of the arm `(1, 20) if minor >= 5` tests the minor version, which
\* the pattern has already fixed to 20
required_java_version(minecraft_version) ==
    LET major == PartOrZero(minecraft_version, 1)
        minor == PartOrZero(minecraft_version, 2)
    IN  IF major = 1 /\ minor <= 16 THEN 8
        ELSE IF major = 1 /\ minor = 17 THEN 16
        ELSE IF major = 1 /\ minor \in 18..19 THEN 17
        ELSE IF major = 1 /\ minor = 20 /\ minor >= 5 THEN 21
        ELSE IF major = 1 /\ minor = 20 THEN 17
        ELSE IF major < 1 \/ (major = 1 /\ minor < 16) THEN 8
        ELSE 17

VersionParts == {NotANumber} \cup (0 .. MaxMinor)

\* "1", "1.20", "1.20.5", "x.20", "1.x", ...
VersionChoices ==
    {<<a>> : a \in {NotANumber, 0, 1, 2}}
        \cup {<<a, b>> : a \in {NotANumber, 0, 1, 2}, b \in VersionParts}
        \cup {<<1, b, 5>> : b \in VersionParts}

JavaInit ==
    /\ EngineIdle
    /\ \E a \in VersionChoices : \E b \in VersionChoices : java_in = <<a, b>>
    /\ java_out = <<>>
    /\ ScopeIdle /\ PkceIdle /\ AuthIdle

\* ensure_java_installed_for_mc up to the call of java::ensure_java_installed
EnsureJavaInstalledForMc ==
    /\ Len(java_out) < Len(java_in)
    /\ java_out' = Append(java_out, required_java_version(java_in[Len(java_out) + 1]))
    /\ UNCHANGED <<engineVars, java_in, scopeVars, pkceVars, authVars>>

JavaNext == EnsureJavaInstalledForMc

JavaSpec == JavaInit /\ [][JavaNext]_vars

(***************************************************************************)
(* fetch_modpack_list and fetch_modpack_file (downloader.rs).  An entry of  *)
(* the published list carries its position as id; its scopes field is      *)
(* absent (has_scopes = FALSE) or a list of group names.                    *)
(***************************************************************************)
\* the mutant: an empty scopes list restricts nothing
is_in_scope_empty_open(user_groups, entry) ==
    \/ ~entry.has_scopes
    \/ entry.scopes = <<>>
    \/ \E g \in DOMAIN user_groups : \E k \in DOMAIN entry.scopes :
          entry.scopes[k] = user_groups[g]

is_in_scope(user_groups, entry) ==
    IF entry.has_scopes
    THEN \E g \in DOMAIN user_groups : \E k \in DOMAIN entry.scopes :
            entry.scopes[k] = user_groups[g]
    ELSE TRUE

\* reqwest::get(..), resp.json(), then .into_iter().filter(..).collect()
fetch_filtered(in, what) ==
    IF in.response = "unreachable"
    THEN [status |-> "err", msg |-> "Failed to fetch " \o what, entries |-> <<>>]
    ELSE IF in.response = "malformed"
    THEN [status |-> "err", msg |-> "Failed to parse " \o what, entries |-> <<>>]
    ELSE [status |-> "ok", msg |-> "",
          entries |-> SelectSeq(in.published,
                                LAMBDA e : is_in_scope(in.user_groups, e))]

fetch_modpack_list(in) == fetch_filtered(in, "modpack list")
fetch_modpack_file(in) == fetch_filtered(in, "modpack file")

GroupChoices == {<<>>, <<"admin">>, <<"beta">>, <<"beta", "admin">>}

ScopesChoices ==
    {[has_scopes |-> FALSE, scopes |-> <<>>]}
        \cup {[has_scopes |-> TRUE, scopes |-> s] :
                s \in {<<>>, <<"admin">>, <<"vip">>, <<"vip", "beta">>}}

\* the lists the server may publish, with at most MaxPublished entries
PublishedChoices ==
    {[k \in DOMAIN l |-> [id |-> k, has_scopes |-> l[k].has_scopes,
                          scopes |-> l[k].scopes]] :
        l \in ListsOf(ScopesChoices, MaxPublished)}

ScopeInit ==
    /\ EngineIdle
    /\ \E op \in {"fetch_modpack_list", "fetch_modpack_file"} :
       \E g \in GroupChoices :
         \/ \E l \in PublishedChoices :
              scope_in = [op |-> op, user_groups |-> g, response |-> "ok",
                          published |-> l]
         \/ \E r \in {"unreachable", "malformed"} :
              scope_in = [op |-> op, user_groups |-> g, response |-> r,
                          published |-> <<>>]
    /\ scope_out = <<>>
    /\ JavaIdle /\ PkceIdle /\ AuthIdle

FetchModpackList ==
    /\ scope_out = <<>>
    /\ scope_in.op = "fetch_modpack_list"
    /\ scope_out' = fetch_modpack_list(scope_in)
    /\ UNCHANGED <<engineVars, scope_in, javaVars, pkceVars, authVars>>

FetchModpackFile ==
    /\ scope_out = <<>>
    /\ scope_in.op = "fetch_modpack_file"
    /\ scope_out' = fetch_modpack_file(scope_in)
    /\ UNCHANGED <<engineVars, scope_in, javaVars, pkceVars, authVars>>

ScopeNext == FetchModpackList \/ FetchModpackFile

ScopeSpec == ScopeInit /\ [][ScopeNext]_vars

(***************************************************************************)
(* The PKCE verifier store (lib.rs).  pkce.json holds state -> verifier;    *)
(* the file is modelled by the set of pairs it holds, and a file that was  *)
(* truncated and not yet written reads as the empty map, as load_pkce_map  *)
(* returns HashMap::new() when the content does not parse.  A state is a   *)
(* number: 0 is a state stored by an earlier get_microsoft_auth_url, call  *)
(* k of get_microsoft_auth_url generates state k.  Tauri runs the async    *)
(* commands on a multi-threaded runtime, and the helpers take no lock.     *)
(***************************************************************************)
Verifier(state) == <<"verifier", state>>
NoVerifier == <<>>

\* HashMap::insert and HashMap::remove on the loaded map
MapInsert(map, state, verifier) == {e \in map : e[1] # state} \cup {<<state, verifier>>}
MapRemove(map, state) == {e \in map : e[1] # state}
MapGet(map, state) ==
    IF \E e \in map : e[1] = state
    THEN (CHOOSE e \in map : e[1] = state)[2]
    ELSE NoVerifier

PkceCall(op, state) ==
    [op |-> op, state |-> state, at |-> "start", map |-> {}, returned |-> NoVerifier]

\* call k is get_microsoft_auth_url storing a verifier under its fresh state,
\* or handle_microsoft_callback for the state stored earlier
PkceCallChoices(k) ==
    {PkceCall("add_pkce_verifier", k), PkceCall("get_and_remove_pkce_verifier", 0)}

PkceInit ==
    /\ EngineIdle
    /\ \E n \in 1..MaxPkceCalls :
       \E calls \in [1..n -> UNION {PkceCallChoices(k) : k \in 1..n}] :
         /\ \A k \in 1..n : calls[k] \in PkceCallChoices(k)
         /\ pkce_calls = calls
    /\ pkce_file = {<<0, Verifier(0)>>}
    /\ JavaIdle /\ ScopeIdle /\ AuthIdle

\* load_pkce_map, then the insert or the remove on the loaded map
LoadPkceMap(k) ==
    /\ pkce_calls[k].at = "start"
    /\ LET c == pkce_calls[k]
           loaded == pkce_file
       IN  pkce_calls' =
             [pkce_calls EXCEPT ![k] =
                IF c.op = "add_pkce_verifier"
                THEN [c EXCEPT !.at = "loaded",
                               !.map = MapInsert(loaded, c.state, Verifier(c.state))]
                ELSE [c EXCEPT !.at = "loaded",
                               !.map = MapRemove(loaded, c.state),
                               !.returned = MapGet(loaded, c.state)]]
    /\ UNCHANGED <<engineVars, pkce_file, javaVars, scopeVars, authVars>>

\* save_pkce_map: fs::write creates or truncates the file ...
SavePkceMapTruncate(k) ==
    /\ pkce_calls[k].at = "loaded"
    /\ pkce_file' = {}
    /\ pkce_calls' = [pkce_calls EXCEPT ![k].at = "truncated"]
    /\ UNCHANGED <<engineVars, javaVars, scopeVars, authVars>>

\* ... and writes the serialized map; the helper returns
SavePkceMapWrite(k) ==
    /\ pkce_calls[k].at = "truncated"
    /\ pkce_file' = pkce_calls[k].map
    /\ pkce_calls' = [pkce_calls EXCEPT ![k].at = "done"]
    /\ UNCHANGED <<engineVars, javaVars, scopeVars, authVars>>

PkceNext ==
    \E k \in DOMAIN pkce_calls :
        LoadPkceMap(k) \/ SavePkceMapTruncate(k) \/ SavePkceMapWrite(k)

PkceSpec == PkceInit /\ [][PkceNext]_vars

(***************************************************************************)
(* The token store (lib.rs): AUTH_TOKENS, a map behind a mutex, and the    *)
(* file tokens.json that every change of the map is saved to while the     *)
(* mutex is held.  A step below is one critical section of the mutex, or   *)
(* an await between two of them.  A token is identified by the number of   *)
(* the login that issued it: 1 is the token loaded at startup, call k of   *)
(* handle_microsoft_callback issues token k + 1.                           *)
(***************************************************************************)
Uuids == {"u1", "u2"}

\* kind: "fresh" (not expired, accepted by the profile service), "expired"
\* (expires_at has passed), "revoked" (rejected by the profile service)
Token(id, kind) == [id |-> id, kind |-> kind]
NoToken == Token(0, "none")

AuthCall(op, uuid) == [op |-> op, uuid |-> uuid, at |-> "start", observed |-> NoToken,
                       returned |-> NoToken]

AuthCallChoices ==
    {AuthCall(op, u) : op \in {"get_auth_token", "handle_microsoft_callback"},
                       u \in Uuids}

\* initialize_tokens has loaded the file into the map
AuthInit ==
    /\ EngineIdle
    /\ \E kind \in {"fresh", "expired", "revoked"} :
       \E stored \in {{}, {"u1"}, {"u1", "u2"}} :
         auth_tokens = [u \in Uuids |-> IF u \in stored THEN Token(1, kind) ELSE NoToken]
    /\ tokens_file = auth_tokens
    /\ auth_calls \in UNION {[1..n -> AuthCallChoices] : n \in 1..MaxAuthCalls}
    /\ JavaIdle /\ ScopeIdle /\ PkceIdle

IsGet(k, at) == auth_calls[k].op = "get_auth_token" /\ auth_calls[k].at = at

\* get_auth_token, first critical section: look the token up and compare
\* expires_at with the clock; on an expired token the guard is dropped
GetAuthTokenLookup(k) ==
    /\ IsGet(k, "start")
    /\ LET c == auth_calls[k]
           token == auth_tokens[c.uuid]
       IN  auth_calls' =
             [auth_calls EXCEPT ![k] =
                IF token = NoToken THEN [c EXCEPT !.at = "done"]
                ELSE IF token.kind = "expired"
                THEN [c EXCEPT !.at = "expired", !.observed = token]
                ELSE [c EXCEPT !.at = "validating", !.observed = token]]
    /\ UNCHANGED <<engineVars, auth_tokens, tokens_file, javaVars, scopeVars, pkceVars>>

\* tokens.remove(&uuid) and save_tokens_to_file under the mutex
RemoveAndSave(k) ==
    /\ auth_tokens' = [auth_tokens EXCEPT ![auth_calls[k].uuid] = NoToken]
    /\ tokens_file' = auth_tokens'
    /\ auth_calls' = [auth_calls EXCEPT ![k].at = "done"]

\* get_auth_token, the expired branch: the mutex is taken again
GetAuthTokenRemoveExpired(k) ==
    /\ IsGet(k, "expired")
    /\ RemoveAndSave(k)
    /\ UNCHANGED <<engineVars, javaVars, scopeVars, pkceVars>>

\* validate_minecraft_token(..).await: Ok when the profile service accepts
\* the token, Err when it rejects it or cannot be reached
GetAuthTokenValidate(k) ==
    /\ IsGet(k, "validating")
    /\ \E reachable \in BOOLEAN :
         LET c == auth_calls[k]
         IN  auth_calls' =
               [auth_calls EXCEPT ![k] =
                  IF reachable /\ c.observed.kind = "fresh"
                  THEN [c EXCEPT !.at = "done", !.returned = c.observed]
                  ELSE [c EXCEPT !.at = "invalid"]]
    /\ UNCHANGED <<engineVars, auth_tokens, tokens_file, javaVars, scopeVars, pkceVars>>

\* get_auth_token, the branch of a failed validation
GetAuthTokenRemoveInvalid(k) ==
    /\ IsGet(k, "invalid")
    /\ RemoveAndSave(k)
    /\ UNCHANGED <<engineVars, javaVars, scopeVars, pkceVars>>

\* handle_microsoft_callback: the exchanges with the login services fail and
\* the command returns the error, or they give a token and it is stored
\* and saved under the mutex
HandleMicrosoftCallback(k) ==
    /\ auth_calls[k].op = "handle_microsoft_callback"
    /\ auth_calls[k].at = "start"
    /\ \/ /\ auth_calls' = [auth_calls EXCEPT ![k].at = "failed"]
          /\ UNCHANGED <<auth_tokens, tokens_file>>
       \/ /\ auth_tokens' = [auth_tokens EXCEPT ![auth_calls[k].uuid] = Token(k + 1, "fresh")]
          /\ tokens_file' = auth_tokens'
          /\ auth_calls' = [auth_calls EXCEPT ![k].at = "done",
                                              ![k].returned = Token(k + 1, "fresh")]
    /\ UNCHANGED <<engineVars, javaVars, scopeVars, pkceVars>>

AuthNext ==
    \E k \in DOMAIN auth_calls :
        \/ GetAuthTokenLookup(k)
        \/ GetAuthTokenRemoveExpired(k)
        \/ GetAuthTokenValidate(k)
        \/ GetAuthTokenRemoveInvalid(k)
        \/ HandleMicrosoftCallback(k)

AuthSpec == AuthInit /\ [][AuthNext]_vars

(***************************************************************************)
(* Properties of the asset engine                                          *)
(***************************************************************************)
Started == {i \in DOMAIN tasks : tasks[i].phase # "new"}
Flying == {i \in DOMAIN tasks : InFlight(tasks[i])}
\* the batch of the work-list position i, batches of 10
BatchNo(i) == ((i - 1) \div 10) + 1

\* the engine is between the construction of the work list and the next call
Downloading == work # <<>>
Returned(op) == call.op = op /\ call.status \in {"ok", "err"}

RECURSIVE SentUpTo(_, _)
\* requests sent by the tasks 1..k for the object of hash h
SentUpTo(k, h) ==
    IF k = 0 THEN 0
    ELSE SentUpTo(k - 1, h) + (IF work[k].hash = h THEN tasks[k].sent ELSE 0)

\* C1: batches never overlap: a task of batch k+1 is started only when every
\* task of batch k has finished and the pause after batch k was taken, so at
\* most 10 tasks are in flight.
C1_BatchesNeverOverlap ==
    /\ \A i \in Started :
         /\ \A j \in DOMAIN tasks : BatchNo(j) < BatchNo(i) => Finished(tasks[j])
         /\ pauses >= BatchNo(i) - 1
    /\ Cardinality(Flying) <= 10

\* a task of the second batch is in flight
C1_Witness ==
    /\ \E i \in Flying : BatchNo(i) = 2
    /\ \E j \in DOMAIN tasks : BatchNo(j) = 1 /\ tasks[j].phase = "err"

\* C2: when the loop over the batches ends, every work-list item has
\* succeeded or has failed 3 times, whatever became of the other items.
C2_EveryItemAttempted ==
    (Downloading /\ (pc = "as_report" \/ Returned("ensure_assets"))) =>
       \A i \in DOMAIN tasks :
          \/ tasks[i].phase = "ok" /\ Exists(ObjKey(work[i].hash))
          \/ tasks[i].phase = "err" /\ tasks[i].fails = 3 /\ tasks[i].sent = 3

\* an item of the first batch failed for good, its sibling and an item of
\* the next batch were downloaded all the same
C2_Witness ==
    /\ pc = "as_report"
    /\ \E i, j, k \in DOMAIN tasks :
         /\ BatchNo(i) = 1 /\ tasks[i].phase = "err"
         /\ BatchNo(j) = 1 /\ tasks[j].phase = "ok"
         /\ BatchNo(k) = 2 /\ tasks[k].phase = "ok"

\* C3: at most 3 attempts per item; attempt n+1 follows a failed attempt n
\* and its backoff pause; nothing follows a success; no pause before attempt
\* 1 or after attempt 3.  Every request of the engine is one such attempt.
C3_RetryDiscipline ==
    /\ \A i \in DOMAIN tasks :
         LET t == tasks[i] IN
         /\ t.sent <= 3
         /\ t.phase = "new"   => t.sent = 0 /\ t.fails = 0 /\ t.slept = 0
         /\ t.phase = "req"   => t.sent = t.fails + 1 /\ t.slept = t.fails
         /\ t.phase = "sleep" => t.sent = t.fails /\ t.slept = t.fails - 1 /\ t.fails < 3
         /\ t.phase = "ok"    => t.sent = t.fails + 1 /\ t.slept = t.fails
         /\ t.phase = "err"   => t.sent = 3 /\ t.fails = 3 /\ t.slept = 2
    /\ Downloading =>
         \A h \in Hashes : net[ObjKey(h)] = SentUpTo(Len(work), h)

\* one item succeeded on its third attempt, another failed three times
C3_Witness ==
    \E i, j \in DOMAIN tasks :
       /\ tasks[i].phase = "ok" /\ tasks[i].sent = 3 /\ tasks[i].slept = 2
       /\ tasks[j].phase = "err" /\ net[ObjKey(work[j].hash)] = 3

\* C4: every work-list item contributes exactly one outcome: the successes
\* are counted, each exhausted item leaves one message, a late success none.
C4_OneOutcomePerItem ==
    Downloading =>
       /\ downloaded = Cardinality({i \in DOMAIN tasks : tasks[i].phase = "ok"})
       /\ Len(failed) = Cardinality({i \in DOMAIN tasks : tasks[i].phase = "err"})
       /\ \A i \in DOMAIN tasks : \A k \in DOMAIN failed :
            failed[k].a = work[i].name => tasks[i].phase = "err" /\ failed[k].b = 3
       /\ (pc = "as_report" \/ Returned("ensure_assets")) =>
            downloaded + Len(failed) = Len(work)

\* two failures then a success next to three failures, at the end of the loop
C4_Witness ==
    /\ pc = "as_report"
    /\ downloaded = 1
    /\ Len(failed) = 1
    /\ \E i \in DOMAIN tasks : tasks[i].phase = "ok" /\ tasks[i].fails = 2


\* C5 as stated: ensure_assets returns an error if and only if at least one
\* work-list item exhausted its 3 attempts, and only after every item has
\* reached its final outcome.
C5_ErrorIffItemExhausted ==
    Returned("ensure_assets") =>
       /\ call.status = "err" <=> \E i \in DOMAIN tasks : tasks[i].phase = "err"
       /\ \A i \in DOMAIN tasks : Finished(tasks[i])

\* C5 as amended: once the work list is built and non-empty, ensure_assets
\* returns an error if and only if at least one work-list item exhausted its
\* 3 attempts, and it returns only after every item of every batch has
\* reached its final outcome.
C5_ErrorIffItemExhaustedOnceDownloading ==
    (Returned("ensure_assets") /\ Downloading) =>
       /\ call.status = "err" <=> \E i \in DOMAIN tasks : tasks[i].phase = "err"
       /\ \A i \in DOMAIN tasks : Finished(tasks[i])
       /\ pauses = BatchNo(Len(work))

\* an error is returned after both batches ran to their end
C5_Witness ==
    /\ Returned("ensure_assets")
    /\ call.status = "err"
    /\ \E i, j \in DOMAIN tasks :
         /\ BatchNo(i) = 1 /\ tasks[i].phase = "err"
         /\ BatchNo(j) = 2 /\ tasks[j].phase = "ok"

\* C6: with F >= 1 failures the error of ensure_assets reports the total F,
\* holds the first min(10, F) failure messages verbatim and no others, and
\* ends with a suffix noting F - 10 more if and only if F > 10.
C6_BoundedErrorReport ==
    (Returned("ensure_assets") /\ failed # <<>>) =>
       LET F == Len(failed)
           shown == IF F < 10 THEN F ELSE 10
           m == call.msg
       IN /\ call.status = "err"
          /\ m[1].a = F
          /\ m[1].b = shown
          /\ \A k \in 1..shown : m[k + 1] = failed[k]
          /\ Len(m) = 1 + shown + (IF F > 10 THEN 1 ELSE 0)
          /\ F > 10 => m[Len(m)] = [kind |-> "... and more errors", a |-> F - 10, b |-> 0]

\* 15 failing items: 10 messages and a suffix noting 5 more
C6_Witness ==
    /\ Returned("ensure_assets")
    /\ Len(failed) = 15
    /\ Len(call.msg) = 12
    /\ call.msg[11] = failed[10]
    /\ call.msg[12].a = 5

\* C7 as stated: no two download tasks in flight have the same target path
\* assets/objects/<hash[0:2]>/<hash>.
C7_OneWriterPerPath ==
    \A i, j \in Flying : i # j => work[i].hash # work[j].hash

\* C8: an acquisition entered with nothing missing on disk sends no request
\* and returns success.
C8_SatisfiedMeansNoRequest ==
    /\ (Returned("ensure_libraries") /\ satisfied) =>
          /\ call.status = "ok"
          /\ \A i \in LibIds : net[LibKey(i)] = 0
    /\ (Returned("ensure_assets") /\ satisfied) =>
          /\ call.status = "ok"
          /\ net[IndexKey] = 0
          /\ \A h \in Hashes : net[ObjKey(h)] = 0

\* a launch on a complete directory with a non-empty index: both
\* acquisitions have returned and the launch has sent no request at all
C8_Witness ==
    /\ Returned("ensure_assets")
    /\ satisfied
    /\ Len(index_objects) >= 2
    /\ \A i \in LibIds : LibraryWanted(i, target_os, target_arch) => Exists(LibKey(i))
    /\ \A u \in Urls : net[u] = 0

\* C9: the work list is exactly the index entries whose object is missing on
\* disk, each once and in index order; only objects of the work list are
\* requested; an empty work list returns success without an asset request.
C9_WorkListIsMissingSet ==
    /\ (pc = "as_batch" /\ chunk = 1) =>
          /\ \A k \in DOMAIN index_objects :
               (\E i \in DOMAIN work : work[i].name = k)
                  <=> disk[ObjKey(index_objects[k])] = 0
          /\ \A i \in DOMAIN work : work[i].hash = index_objects[work[i].name]
          /\ \A i, j \in DOMAIN work : i < j => work[i].name < work[j].name
    /\ \A h \in Hashes :
          net[ObjKey(h)] > 0 => \E i \in DOMAIN work : work[i].hash = h
    /\ (Returned("ensure_assets") /\ ~Downloading /\ call.status = "ok") =>
          /\ \A k \in DOMAIN index_objects : Exists(ObjKey(index_objects[k]))
          /\ \A h \in Hashes : net[ObjKey(h)] = 0

\* the work list leaves out the objects that exist and keeps the others
C9_Witness ==
    /\ pc = "as_batch"
    /\ chunk = 1
    /\ Len(work) >= 1
    /\ Len(work) < Len(index_objects)
    /\ \E k \in DOMAIN index_objects : Exists(ObjKey(index_objects[k]))

\* C10 as stated: an artifact that exists at its path is never fetched again
\* and never overwritten.
C10_PresentNeverFetchedAgain ==
    [][\A p \in Paths : disk[p] > 0 => net'[p] <= net[p] /\ disk'[p] = disk[p]]_vars


(***************************************************************************)
(* Properties of the rule evaluation                                       *)
(***************************************************************************)
Evaluated == pc = "rule_done"

\* the rule's whole condition, as should_apply_rule computes it
Hit(k) == RuleMatches(rules_arg[k], target_os, target_arch)

\* the identifiers a version document uses for the platform of the build
PlatformId == CASE target_os = "windows" -> "windows"
                [] target_os = "linux" -> "linux"
                [] target_os = "macos" -> "osx"
                [] OTHER -> "unsupported"
ArchId == CASE target_arch = "x86" -> "x86"
            [] target_arch = "x86_64" -> "x64"
            [] target_arch = "aarch64" -> "arm64"
            [] OTHER -> "unsupported"

\* the os part of rule k agrees with the platform
OsAgrees(k) ==
    LET r == rules_arg[k] IN
    /\ (r.has_os /\ r.os_name # NoneStr) => r.os_name = PlatformId
    /\ (r.has_os /\ r.os_arch # NoneStr) => r.os_arch = ArchId

\* C11: the first rule of the list whose condition is true decides the
\* result, allow giving true and disallow false, whatever follows it
C11_FirstMatchDecides ==
    Evaluated =>
      \A k \in DOMAIN rules_arg :
         (Hit(k) /\ \A j \in 1..(k - 1) : ~Hit(j))
           => (applies <=> rules_arg[k].action = "allow")

\* a list of three rules in which a later matching rule has the other action
C11_Witness ==
    /\ Evaluated
    /\ Len(rules_arg) = 3
    /\ ~Hit(1) /\ Hit(2) /\ Hit(3)
    /\ rules_arg[2].action = "disallow"
    /\ rules_arg[3].action = "allow"
    /\ ~applies

\* C12: when no rule matches, the result is true exactly for the empty list
C12_DefaultDenyUnlessEmpty ==
    (Evaluated /\ \A k \in DOMAIN rules_arg : ~Hit(k))
      => (applies <=> rules_arg = <<>>)

\* a non-empty list of allow rules none of which matches, evaluated to false
C12_Witness ==
    /\ Evaluated
    /\ Len(rules_arg) = 2
    /\ \A k \in DOMAIN rules_arg : ~Hit(k) /\ rules_arg[k].action = "allow"
    /\ ~applies

\* C13: a rule that requires a feature to be true, whatever the name of
\* the feature, never matches: a list made of such rules evaluates to false
C13_FeatureTrueNeverMatches ==
    (/\ Evaluated
     /\ rules_arg # <<>>
     /\ \A k \in DOMAIN rules_arg : \E f \in rules_arg[k].features : f[2] = TRUE)
      => ~applies

\* C14: a rule whose os name or os arch is present and is not the
\* identifier of the platform never matches: the first rule that agrees
\* with the platform decides when it has no feature condition, and a list
\* in which no rule agrees evaluates to false
C14_OsConditionIsNecessary ==
    Evaluated =>
      /\ \A k \in DOMAIN rules_arg :
            (/\ OsAgrees(k)
             /\ rules_arg[k].features = {}
             /\ \A j \in 1..(k - 1) : ~OsAgrees(j))
              => (applies <=> rules_arg[k].action = "allow")
      /\ (rules_arg # <<>> /\ \A k \in DOMAIN rules_arg : ~OsAgrees(k)) => ~applies
      /\ (/\ rules_arg = <<Rule("allow", "windows", NoneStr, {})>>
          /\ target_os # "windows") => ~applies

\* an allow rule after rules with an unknown name and a foreign arch
C14_Witness ==
    /\ Evaluated
    /\ Len(rules_arg) = 3
    /\ rules_arg[1] = Rule("disallow", "solaris", NoneStr, {})
    /\ rules_arg[2] = Rule("disallow", "linux", "x86", {})
    /\ rules_arg[3] = Rule("allow", "linux", NoneStr, {})
    /\ target_os = "linux"
    /\ applies


(***************************************************************************)
(* Properties of version resolution and library acquisition                *)
(***************************************************************************)
ResolverUrls == {ManifestKey, JsonKey, JarKey}
LibraryUrls == {LibKey(i) : i \in LibIds}

NotFound == Err("download_minecraft_version", Msg("Version not found"))

\* the manifest of the current launch was received and parsed
ManifestReceived == manifest # <<>>

\* no entry of the received manifest has exactly the requested id
NoExactEntry == \A k \in DOMAIN manifest : manifest[k] # <<1, 20>>

\* C15: while the version JSON exists, version resolution sends no manifest,
\* detail or client-jar request
C15_NoResolverRequestWhileJsonExists ==
    [][\A u \in ResolverUrls : net'[u] > net[u] => disk[JsonKey] = 0]_vars

\* C16: when no manifest entry has exactly the requested id, resolution
\* fails with the not-found error, no detail or client-jar request is sent,
\* and no step of the failing resolution changes the filesystem
C16_UnknownVersionFailsCleanly ==
    /\ [](ManifestReceived =>
            (NoExactEntry <=> (call = NotFound /\ pc = "done")))
    /\ []((ManifestReceived /\ NoExactEntry) =>
            (net[JsonKey] = 0 /\ net[JarKey] = 0 /\ net[ManifestKey] = 1))
    /\ [][(pc = "dl_manifest" /\ call' = NotFound) => disk' = disk /\ bad' = bad]_vars
    /\ [][(pc \in {"ensure_minecraft_version", "get_version_details"}
            /\ pc' = "dl_manifest") => disk' = disk /\ bad' = bad]_vars

\* a manifest that lists only a longer id was answered with not-found on
\* an empty directory
C16_Witness ==
    /\ call = NotFound
    /\ manifest = << <<1, 20, 1>> >>
    /\ \A p \in Paths : disk[p] = 0

C18_Non2xxIsAnError ==
    [][\A p \in {JarKey} \cup LibraryUrls :
         (p \in bad' /\ p \notin bad) => call'.status = "err"]_vars

\* the rule filter and the path condition of library i, from its record
Filtered(i) ==
    /\ ~Libraries[i].has_rules
         \/ should_apply_rule(Libraries[i].rules, target_os, target_arch)
    /\ Libraries[i].has_path

\* C19: a library is requested only if it passes the rule filter, has an
\* artifact path and its file is absent; the loop leaves no such library
\* behind without its file, so after a successful call each of them exists
C19_RequestsExactlyMissingFiltered ==
    /\ [](\A i \in LibIds : net[LibKey(i)] > 0 => Filtered(i))
    /\ [][\A i \in LibIds :
            net'[LibKey(i)] > net[LibKey(i)] => (Filtered(i) /\ disk[LibKey(i)] = 0)]_vars
    /\ [][\A i \in LibIds :
            disk'[LibKey(i)] # disk[LibKey(i)]
              => (pc = "lib_req" /\ lib_i = i /\ net[LibKey(i)] = 1)]_vars
    /\ [](pc = "libs_loop" =>
            \A i \in LibIds : (i < lib_i /\ Filtered(i)) => disk[LibKey(i)] > 0)
    /\ []((call.op = "ensure_libraries" /\ call.status = "ok") =>
            \A i \in LibIds : Filtered(i) => disk[LibKey(i)] > 0)

\* on windows the windows-only library is fetched with the common ones and
\* the library without a path is not
C19_Witness ==
    /\ call.op = "ensure_libraries" /\ call.status = "ok"
    /\ target_os = "windows"
    /\ net[LibKey(1)] = 1 /\ net[LibKey(2)] = 1 /\ net[LibKey(3)] = 0
    /\ net[LibKey(4)] = 1
    /\ \A i \in {1, 2, 4} : disk[LibKey(i)] = 1


(***************************************************************************)
(* Properties of launch                                                    *)
(***************************************************************************)
IsPrefix(s, t) == Len(s) <= Len(t) /\ SubSeq(t, 1, Len(s)) = s

\* the order of the stages in a launch of a modpack with and without mods
StagesWithMods ==
    <<"verify_java", "get_modpack", "ensure_libraries", "ensure_minecraft_version",
      "ensure_assets", "handle_modloader", "update_mods", "ensure_native_libraries",
      "get_version_details", "build_launch_command", "spawn">>
StagesWithoutMods ==
    <<"verify_java", "get_modpack", "ensure_libraries", "ensure_minecraft_version",
      "ensure_assets", "handle_modloader", "ensure_native_libraries",
      "get_version_details", "build_launch_command", "spawn">>

\* C20: the stages of a launch succeed in the forward order and the process
\* is spawned after all of them; once a stage has returned an error no
\* stage runs and nothing is spawned; launch returns Ok at the spawn, while
\* the process is running
C20_ForwardOrderThenSpawn ==
    /\ [](IsPrefix(stages, StagesWithMods) \/ IsPrefix(stages, StagesWithoutMods))
    /\ [](call.status = "err" => (pc = "done" /\ child = "none"))
    /\ [][call.status = "err" => (stages' = stages \/ pc' = "verify_java")]_vars
    /\ [](child # "none" =>
            (stages = StagesWithMods \/ stages = StagesWithoutMods))
    /\ [][(call' = Ok("launch") /\ call # Ok("launch"))
            => (child = "none" /\ child' = "running" /\ pc' = "done")]_vars
    /\ [](call = Ok("launch") => child # "none")

\* launch has returned Ok and the process it spawned is still running
C20_Witness ==
    /\ call = Ok("launch")
    /\ pc = "done"
    /\ child = "running"
    /\ stages = StagesWithoutMods

\* C30: in a launch the loader installer is requested and run at most once,
\* and only for a modpack with a loader whose marker jar is absent; after a
\* run that exited with a failure status, launch has returned the error of
\* handle_modloader and went through neither native extraction nor command
\* building nor a spawn
C30_InstallerOnceAndFatal ==
    /\ [](Len(installer_runs) <= 1 /\ net[InstallerKey] <= 1)
    /\ [][(Len(installer_runs') > Len(installer_runs)
             \/ net'[InstallerKey] > net[InstallerKey])
            => (disk[MarkerKey] = 0 /\ loader # "none")]_vars
    /\ [](installer_runs = <<"nonzero">> =>
            /\ call.op = "handle_modloader" /\ call.status = "err"
            /\ pc = "done"
            /\ child = "none"
            /\ \A k \in DOMAIN stages :
                  stages[k] \notin {"ensure_native_libraries", "get_version_details",
                                    "build_launch_command", "spawn"})

\* the forge installer ran once, failed, and the launch ended there
C30_Witness ==
    /\ installer_runs = <<"nonzero">>
    /\ net[InstallerKey] = 1
    /\ loader = "forge"
    /\ java_path = "java"
    /\ call.status = "err"
    /\ pc = "done"


(***************************************************************************)
(* Properties of the command builder                                       *)
(***************************************************************************)
\* build_launch_command returned a command
Built == pc = "command_done" /\ command.status = "ok"

\* the memory settings the options configure
MemoryArgs ==
    (IF cmd_in.options.max_memory = NoneStr THEN <<>>
     ELSE << <<"-Xmx", cmd_in.options.max_memory, "M">> >>)
    \o (IF cmd_in.options.min_memory = NoneStr THEN <<>>
        ELSE << <<"-Xms", cmd_in.options.min_memory, "M">> >>)

\* C21: the argument list is the memory settings that are configured, the
\* included arguments.jvm entries in manifest order, one
\* -Djava.library.path argument naming the libraries and the natives
\* directory, -cp, the classpath, the main class, the game arguments
C21_ArgumentOrder ==
    Built =>
        \E sep \in {";", ":"} :
            command.args =
                MemoryArgs
                \o (IF cmd_in.has_arguments
                    THEN JvmEntries(cmd_in.jvm, cmd_in.options, target_os, target_arch)
                    ELSE <<>>)
                \o << <<"-Djava.library.path=", LibrariesDir, sep, NativesDir>>,
                      <<"-cp">>,
                      build_classpath(disk, target_os, target_arch),
                      <<MainClass>> >>
                \o add_game_arguments(cmd_in, disk, bad, target_os, target_arch)

Placeholders ==
    {"${auth_player_name}", "${version_name}", "${game_directory}", "${assets_root}",
     "${assets_index_name}", "${auth_uuid}", "${auth_access_token}", "${clientid}",
     "${auth_xuid}", "${user_type}", "${version_type}", "${resolution_width}",
     "${resolution_height}", "${natives_directory}"}

\* C22: no argument of the command, JVM or game, still contains one of the
\* fourteen placeholders
C22_NoPlaceholderLeft ==
    Built =>
        \A k \in DOMAIN command.args : \A i \in DOMAIN command.args[k] :
            command.args[k][i] \notin Placeholders

\* position of the main class; the game arguments follow it
MainAt == CHOOSE k \in DOMAIN command.args : command.args[k] = <<MainClass>>
GameArgs == SubSeq(command.args, MainAt + 1, Len(command.args))

\* the username is unset or an ordinary name
PlainName == cmd_in.options.username \in {NoneStr, "Steve"}

\* C23: the builder does not fail when username, uuid or access token is
\* unset: the placeholder becomes "Player", the zero uuid or "token";
\* "${auth_player_name} ${version_name}" with username Steve and version
\* 1.20.1 gives "Steve 1.20.1"
C23_DefaultsForUnsetIdentity ==
    /\ (pc = "command_done" /\ cmd_in.options.java_path # NoneStr) =>
           command.status = "ok"
    /\ (Built /\ cmd_in.has_arguments /\ PlainName
          /\ cmd_in.game = <<StrArg(<<"${auth_player_name}", " ", "${version_name}">>)>>) =>
           GameArgs = << << IF cmd_in.options.username = NoneStr THEN "Player"
                            ELSE cmd_in.options.username,
                            " ", "1.20.1" >> >>
    /\ (Built /\ cmd_in.has_arguments /\ PlainName
          /\ cmd_in.game = <<StrArg(AllPlaceholders)>>) =>
           /\ Len(GameArgs) = 1
           /\ GameArgs[1][1] = (IF cmd_in.options.username = NoneStr THEN "Player"
                                ELSE cmd_in.options.username)
           /\ GameArgs[1][6] = (IF cmd_in.options.uuid = NoneStr
                                THEN "00000000-0000-0000-0000-000000000000"
                                ELSE cmd_in.options.uuid)
           /\ GameArgs[1][7] = (IF cmd_in.options.access_token = NoneStr THEN "token"
                                ELSE cmd_in.options.access_token)

\* with no identity configured the template of all placeholders is built
\* from the defaults
C23_Witness ==
    /\ Built
    /\ cmd_in.options.username = NoneStr
    /\ cmd_in.options.uuid = NoneStr
    /\ cmd_in.options.access_token = NoneStr
    /\ cmd_in.has_arguments
    /\ cmd_in.game = <<StrArg(AllPlaceholders)>>
    /\ GameArgs[1][1] = "Player"
    /\ GameArgs[1][6] = "00000000-0000-0000-0000-000000000000"
    /\ GameArgs[1][7] = "token"

\* position of -cp; the arguments.jvm part lies between the memory settings
\* and the library path arguments that precede -cp
CpAt == CHOOSE k \in DOMAIN command.args : command.args[k] = <<"-cp">>
JvmArgs == SubSeq(command.args, Len(MemoryArgs) + 1, CpAt - 3)

Included(entry) ==
    ~entry.conditional \/ should_apply_rule(entry.rules, target_os, target_arch)

MacOnly(value) == value = <<"-XstartOnFirstThread">> /\ target_os # "macos"

Substituted(value, list) ==
    IF list = "jvm" THEN process_jvm_argument(value, cmd_in.options)
    ELSE process_game_argument(value, cmd_in.options, disk, bad)

\* the arguments the strings of one entry give, the dropped ones left out
RECURSIVE ValuesGive(_, _, _)
ValuesGive(values, list, dropped) ==
    IF values = <<>> THEN <<>>
    ELSE (IF dropped /\ MacOnly(Head(values)) THEN <<>>
          ELSE <<Substituted(Head(values), list)>>)
         \o ValuesGive(Tail(values), list, dropped)

\* the arguments a list of entries gives when each included entry gives
\* all its strings; the platform filter of the JVM list applies to literal
\* strings, and to the strings of conditional entries when filtered is set
RECURSIVE EntriesGive(_, _, _)
EntriesGive(entries, list, filtered) ==
    IF entries = <<>> THEN <<>>
    ELSE (IF Included(Head(entries))
          THEN ValuesGive(Head(entries).values, list,
                          list = "jvm" /\ (~Head(entries).conditional \/ filtered))
          ELSE <<>>)
         \o EntriesGive(Tail(entries), list, filtered)

\* C24: in the JVM and in the game list a conditional entry contributes
\* arguments iff should_apply_rule holds for its rules: its string, or each
\* string of its array, substituted separately, all in manifest order
C24_ConditionalIffRuleHolds ==
    (Built /\ cmd_in.has_arguments) =>
        /\ JvmArgs = EntriesGive(cmd_in.jvm, "jvm", FALSE)
        /\ GameArgs = EntriesGive(cmd_in.game, "game", FALSE)

\* C24 as the code has it: the same, except that in the JVM list a string
\* "-XstartOnFirstThread" of an included conditional entry is dropped on a
\* platform other than macOS, as a literal one is
C24_ConditionalIffRuleHoldsAfterFilter ==
    (Built /\ cmd_in.has_arguments) =>
        /\ JvmArgs = EntriesGive(cmd_in.jvm, "jvm", TRUE)
        /\ GameArgs = EntriesGive(cmd_in.game, "game", TRUE)

\* on linux the entry for windows gives nothing and the array of the entry
\* that applies gives two arguments, in order
C24_Witness ==
    /\ Built
    /\ target_os = "linux"
    /\ Len(cmd_in.jvm) = 2
    /\ cmd_in.jvm[1].conditional /\ ~Included(cmd_in.jvm[1])
    /\ cmd_in.jvm[2].conditional /\ cmd_in.jvm[2].is_array
    /\ JvmArgs = << <<"-Djna.tmpdir=", "game/natives">>,
                    <<"-Dclient=", "${version_name}">> >>
    /\ Len(cmd_in.game) = 1 /\ cmd_in.game[1].is_array
    /\ GameArgs = << <<"--width">>,
                     <<IF cmd_in.options.width = NoneStr THEN "1280"
                       ELSE cmd_in.options.width>> >>

IsSpace(piece) == piece \in {" ", "\t"}

\* where the words of a string begin, and where the word beginning at k ends
WordStarts(s) == {k \in DOMAIN s : ~IsSpace(s[k]) /\ (k = 1 \/ IsSpace(s[k - 1]))}
WordEnd(s, k) ==
    CHOOSE m \in k..Len(s) :
        /\ \A i \in k..m : ~IsSpace(s[i])
        /\ m = Len(s) \/ IsSpace(s[m + 1])

\* C25: with an arguments block the game arguments are those of
\* arguments.game and nothing comes from minecraftArguments; without the
\* block they are the words of minecraftArguments, each substituted on its
\* own, in order
C25_StructuredElseLegacyWords ==
    /\ (Built /\ cmd_in.has_arguments) =>
           /\ GameArgs = EntriesGive(cmd_in.game, "game", FALSE)
           /\ \A k \in DOMAIN GameArgs : \A i \in DOMAIN GameArgs[k] :
                  GameArgs[k][i] # "--legacy"
    /\ (Built /\ ~cmd_in.has_arguments /\ cmd_in.has_legacy) =>
           LET s == cmd_in.legacy
               starts == WordStarts(s)
           IN  /\ Len(GameArgs) = Cardinality(starts)
               /\ \A k \in starts :
                      GameArgs[Cardinality({j \in starts : j <= k})] =
                          process_game_argument(SubSeq(s, k, WordEnd(s, k)),
                                                cmd_in.options, disk, bad)

\* a legacy string with two white space pieces in a row gives four arguments
C25_Witness ==
    /\ Built
    /\ ~cmd_in.has_arguments /\ cmd_in.has_legacy
    /\ cmd_in.options.username = "Steve"
    /\ Len(cmd_in.legacy) = 8
    /\ GameArgs = << <<"--username">>, <<"Steve">>, <<"--version">>, <<"1.20.1">> >>

\* the value a placeholder stands for
TokenValue(token) ==
    LET o == cmd_in.options
    IN  CASE token = "${auth_player_name}" ->
                (IF o.username = NoneStr THEN "Player" ELSE o.username)
          [] token = "${version_name}" -> "1.20.1"
          [] token = "${game_directory}" -> "game"
          [] token = "${assets_root}" -> "assets"
          [] token = "${assets_index_name}" ->
                (IF disk[JsonKey] > 0 /\ JsonKey \notin bad THEN "5" ELSE "1.20.1")
          [] token = "${auth_uuid}" ->
                (IF o.uuid = NoneStr THEN "00000000-0000-0000-0000-000000000000"
                 ELSE o.uuid)
          [] token = "${auth_access_token}" ->
                (IF o.access_token = NoneStr THEN "token" ELSE o.access_token)
          [] token = "${clientid}" -> "clientid"
          [] token = "${auth_xuid}" -> "xuid"
          [] token = "${user_type}" -> "msa"
          [] token = "${version_type}" -> "release"
          [] token = "${resolution_width}" ->
                (IF o.width = NoneStr THEN "1280" ELSE o.width)
          [] token = "${resolution_height}" ->
                (IF o.height = NoneStr THEN "720" ELSE o.height)
          [] token = "${natives_directory}" -> "game/natives"

\* one simultaneous substitution over the template: every placeholder of
\* the template becomes its value, and no value is looked at again
Simultaneous(template) ==
    [i \in DOMAIN template |->
        IF template[i] \in Placeholders THEN TokenValue(template[i]) ELSE template[i]]

\* the strings of the included entries of arguments.game, in order
RECURSIVE GameTemplates(_)
GameTemplates(entries) ==
    IF entries = <<>> THEN <<>>
    ELSE (IF Included(Head(entries)) THEN Head(entries).values ELSE <<>>)
         \o GameTemplates(Tail(entries))

\* C34: each game argument is the one simultaneous substitution of all
\* placeholders over its template (a string of arguments.game, or a word of
\* minecraftArguments): a value that was inserted, such as a username that
\* reads "${auth_access_token}", is not substituted again
C34_SubstitutionIsSimultaneous ==
    /\ (Built /\ cmd_in.has_arguments) =>
           LET t == GameTemplates(cmd_in.game)
           IN  GameArgs = [k \in DOMAIN t |-> Simultaneous(t[k])]
    /\ (Built /\ ~cmd_in.has_arguments /\ cmd_in.has_legacy) =>
           LET s == cmd_in.legacy
               starts == WordStarts(s)
           IN  \A k \in starts :
                   GameArgs[Cardinality({j \in starts : j <= k})] =
                       Simultaneous(SubSeq(s, k, WordEnd(s, k)))

\* the classpath argument and its entries, which the separators part
Classpath == command.args[CpAt + 1]
ClasspathEntries == [j \in 1..((Len(Classpath) + 1) \div 2) |-> Classpath[2 * j - 1]]
OnClasspath == {i \in 1..Len(Libraries) : Filtered(i) /\ disk[LibKey(i)] > 0}

\* C26: the classpath is the client jar, then the path of every library
\* that passes the rule filter and exists on disk, in manifest order,
\* nothing else, joined by ";" on windows and ":" elsewhere; a library
\* that is missing is left out and the builder does not fail
C26_ClasspathContents ==
    /\ (pc = "command_done" /\ cmd_in.options.java_path # NoneStr) => Built
    /\ Built =>
        /\ Len(Classpath) = 2 * Cardinality(OnClasspath) + 1
        /\ ClasspathEntries[1] = "client.jar"
        /\ \A i \in OnClasspath :
               ClasspathEntries[1 + Cardinality({j \in OnClasspath : j <= i})]
                   = Libraries[i].name
        /\ \A k \in 1..Cardinality(OnClasspath) :
               Classpath[2 * k] = (IF target_os = "windows" THEN ";" ELSE ":")

\* on windows, with the windows-only library missing from the disk
C26_Witness ==
    /\ Built
    /\ target_os = "windows"
    /\ Filtered(2) /\ disk[LibKey(2)] = 0
    /\ Classpath = <<"client.jar", ";", "common">>


(***************************************************************************)
(* Properties of native extraction                                         *)
(***************************************************************************)
NativesDone == pc = "natives_done"

\* the key of the current platform in a natives map, and the entries of the
\* archive libraries/<that name>
NativeKey ==
    IF target_os = "windows" THEN "natives-windows"
    ELSE IF target_os = "linux" THEN "natives-linux"
    ELSE "natives-macos"
Entries == nat_in.archives[NativeKey].entries

EndsNative(name) ==
    Len(name) > 0 /\ name[Len(name)] \in {".dll", ".so", ".dylib"}

\* the part of a name after its last "/"
Base(name) ==
    CHOOSE b \in {SubSeq(name, k, Len(name)) : k \in 1..Len(name)} :
        /\ \A i \in DOMAIN b : b[i] # "/"
        /\ Len(b) = Len(name) \/ name[Len(name) - Len(b)] = "/"

\* the library is passed over by the loop: it fails its rules, declares no
\* natives map, has no entry for the platform, no classifier of that name,
\* or the archive of that name is not in libraries/
Skipped(library) ==
    \/ library.has_rules /\ ~should_apply_rule(library.rules, target_os, target_arch)
    \/ ~library.has_natives
    \/ ~\E e \in library.natives : e[1] = NativeKey
    \/ \E e \in library.natives :
          /\ e[1] = NativeKey
          /\ \/ ~library.has_classifiers
             \/ e[2] \notin library.classifiers
             \/ nat_in.archives[e[2]].state = "absent"

\* C27: a file is written to the natives directory only for an entry whose
\* name ends in .dll, .so or .dylib, under the name after the last "/";
\* when the call succeeds every such entry of an extracted archive has its
\* file, holding the last entry of that name, and entries of the same base
\* name replace one another without error
C27_NativeEntriesByBaseName ==
    NativesDone =>
        /\ \A f \in natives.files \ nat_in.files :
               \E i \in DOMAIN Entries :
                   /\ EndsNative(Entries[i])
                   /\ f[1] = Base(Entries[i])
                   /\ \/ f[2] = <<NativeKey>> \o Entries[i]
                      \/ f[2] = <<>> /\ natives.status = "err"
        /\ (natives.status = "ok" /\ \E k \in DOMAIN nat_in.libs : ~Skipped(nat_in.libs[k])) =>
               \A i \in DOMAIN Entries :
                   EndsNative(Entries[i]) =>
                       LET same == {j \in DOMAIN Entries :
                                       /\ EndsNative(Entries[j])
                                       /\ Base(Entries[j]) = Base(Entries[i])}
                           last == CHOOSE j \in same : \A m \in same : m <= j
                       IN  <<Base(Entries[i]), <<NativeKey>> \o Entries[last]>>
                               \in natives.files
        /\ (/\ nat_in.json = "ok" /\ nat_in.mkdir_ok
            /\ nat_in.fail.kind = "none"
            /\ nat_in.archives[NativeKey].state # "corrupt") =>
               natives.status = "ok"

\* "sub/dir/libfoo.so" is written as libfoo.so and "readme.txt" is not
C27_Witness ==
    /\ NativesDone
    /\ natives.status = "ok"
    /\ nat_in.files = {}
    /\ Entries = << <<"sub", "/", "dir", "/", "libfoo", ".so">>, <<"readme", ".txt">> >>
    /\ natives.files =
         { << <<"libfoo", ".so">>,
              <<NativeKey, "sub", "/", "dir", "/", "libfoo", ".so">> >> }

\* C28: when the version JSON is read and the natives directory created,
\* and every library fails the rule filter, declares no natives map, has no
\* entry for the platform, no matching classifier or no archive in
\* libraries/, the call succeeds, the directory exists and nothing is
\* extracted
C28_SkippedLibrariesAreNoError ==
    NativesDone =>
        /\ (/\ nat_in.json = "ok" /\ nat_in.mkdir_ok
            /\ \A k \in DOMAIN nat_in.libs : Skipped(nat_in.libs[k])) =>
               /\ natives.status = "ok"
               /\ call = Ok("ensure_native_libraries")
               /\ natives.created
               /\ natives.files = nat_in.files
               /\ natives.attempts = 0
        /\ natives.status = "ok" => natives.created

\* a library without an entry for the platform and one without a matching
\* classifier, with an archive of native files in libraries/
C28_Witness ==
    /\ NativesDone
    /\ Len(nat_in.libs) = 2
    /\ ~\E e \in nat_in.libs[1].natives : e[1] = NativeKey
    /\ nat_in.libs[1].has_natives
    /\ \E e \in nat_in.libs[2].natives :
          e[1] = NativeKey /\ e[2] \notin nat_in.libs[2].classifiers
    /\ nat_in.archives[NativeKey].state = "zip"
    /\ \E i \in DOMAIN Entries : EndsNative(Entries[i])
    /\ natives.status = "ok"
    /\ natives.created
    /\ natives.files = {}


(***************************************************************************)
(* Properties of launches on a directory and with options as found         *)
(***************************************************************************)
\* C33: after download_minecraft_version wrote the client jar and failed
\* before it wrote the version JSON, version resolution and library
\* acquisition of a later launch do not fail unless a request of that
\* launch was sent and it or its write failed
C33_PartialDownloadRecovers ==
    (/\ Exists(JarKey) /\ ~Exists(JsonKey)
     /\ pc = "done"
     /\ call.op \in {"ensure_minecraft_version", "download_minecraft_version",
                     "ensure_libraries"})
        => (call.status # "err" \/ \E u \in Urls : net[u] > 0)

\* C36: a launch without a java_path that verify_java accepted does not
\* fail at build_launch_command for want of a java_path
C36_JavaFallbackIsConsistent ==
    ~(/\ java_path = NoneStr
      /\ \E k \in DOMAIN stages : stages[k] = "verify_java"
      /\ call = Err("build_launch_command", Msg("Java path is required")))

\* C37: no stage of a launch requests or writes the classifier archive
\* under libraries/, and ensure_native_libraries extracts only when the
\* archive exists, so only an archive put there by something else
C37_ClassifierArchiveIsNeverProvisioned ==
    /\ [](net[ClassifierKey] = 0)
    /\ [][disk'[ClassifierKey] = disk[ClassifierKey]]_vars
    /\ []((\E k \in DOMAIN stages : stages[k] = "extract_native_library")
            => disk[ClassifierKey] > 0)

\* a launch that downloaded the first library, extracted the archive found
\* in libraries/ and spawned the game
C37_Witness ==
    /\ net[LibKey(1)] = 1
    /\ disk[LibKey(1)] = 1
    /\ disk[ClassifierKey] = 1
    /\ \E k \in DOMAIN stages : stages[k] = "extract_native_library"
    /\ child = "running"


(***************************************************************************)
(* Properties of the values returned                                       *)
(***************************************************************************)
\* C29: no operation panics: each call returns success or an error string,
\* also ensure_assets on an index with an entry whose hash is missing or
\* has fewer than two characters
C29_NeverPanics == call.status # "panic"

(***************************************************************************)
(* Properties of the application shell                                     *)
(***************************************************************************)
Minor(v) == v[2]

\* the requests are for 1.a and 1.b (with or without a patch number), a <= b
OrderedMinors ==
    /\ Len(java_out) = 2
    /\ \A k \in 1..2 : Len(java_in[k]) >= 2 /\ java_in[k][1] = 1 /\ Minor(java_in[k]) >= 0
    /\ Minor(java_in[1]) <= Minor(java_in[2])

\* C38: required_java_version is non-decreasing in the minor version: for
\* 1.a and 1.b with a <= b the Java required for 1.a is at most the one
\* required for 1.b
C38_JavaNonDecreasingInMinor == OrderedMinors => java_out[1] <= java_out[2]

Fetched == scope_out # <<>> /\ scope_out.status = "ok"

GroupSet == {scope_in.user_groups[g] : g \in DOMAIN scope_in.user_groups}

\* the entry may be shown to the user: no scopes field, or a scope that is
\* one of the user's groups
Allowed(e) ==
    ~e.has_scopes \/ {e.scopes[k] : k \in DOMAIN e.scopes} \cap GroupSet # {}

ReturnedIds == {scope_out.entries[k].id : k \in DOMAIN scope_out.entries}

\* C32: fetch_modpack_list and fetch_modpack_file return an entry iff its
\* scopes field is absent or one of the user's groups is in its scopes; an
\* entry with an empty scopes list is returned to no user; the kept entries
\* are returned unchanged and in the published order
C32_ScopeFilter ==
    Fetched =>
        /\ \A k \in DOMAIN scope_in.published :
              k \in ReturnedIds <=> Allowed(scope_in.published[k])
        /\ \A k \in DOMAIN scope_in.published :
              (scope_in.published[k].has_scopes /\ scope_in.published[k].scopes = <<>>)
                 => k \notin ReturnedIds
        /\ \A k \in DOMAIN scope_out.entries :
              /\ scope_out.entries[k].id \in DOMAIN scope_in.published
              /\ scope_out.entries[k] = scope_in.published[scope_out.entries[k].id]
        /\ \A j, k \in DOMAIN scope_out.entries :
              j < k => scope_out.entries[j].id < scope_out.entries[k].id

\* a user with groups gets the first and the third entry of a list whose
\* second entry has an empty scopes list
C32_Witness ==
    /\ Fetched
    /\ scope_in.op = "fetch_modpack_file"
    /\ scope_in.user_groups = <<"beta", "admin">>
    /\ Len(scope_in.published) = 3
    /\ scope_in.published[1].scopes = <<"vip", "beta">>
    /\ scope_in.published[2].has_scopes /\ scope_in.published[2].scopes = <<>>
    /\ ~scope_in.published[3].has_scopes
    /\ Len(scope_out.entries) = 2
    /\ scope_out.entries[1].id = 1 /\ scope_out.entries[2].id = 3

PkceDone == pkce_calls # <<>> /\ \A k \in DOMAIN pkce_calls : pkce_calls[k].at = "done"

Adds == {k \in DOMAIN pkce_calls : pkce_calls[k].op = "add_pkce_verifier"}
Removes == {k \in DOMAIN pkce_calls : pkce_calls[k].op = "get_and_remove_pkce_verifier"}

\* C31: the PKCE helpers behave as operations of a lock-guarded store: when
\* all calls have returned, the verifier of every add_pkce_verifier call is
\* in the file (the calls that remove are for another state), and the
\* verifier stored for a state was returned by at most one
\* get_and_remove_pkce_verifier call
C31_PkceStoreIsLinearizable ==
    PkceDone =>
        /\ \A k \in Adds :
              <<pkce_calls[k].state, Verifier(pkce_calls[k].state)>> \in pkce_file
        /\ Cardinality({k \in Removes : pkce_calls[k].returned # NoVerifier}) <= 1

\* call k of get_auth_token takes the step that removes the entry of its uuid
Removing(k) ==
    /\ auth_calls[k].op = "get_auth_token"
    /\ auth_calls[k].at \in {"expired", "invalid"}
    /\ auth_calls'[k].at = "done"

\* C35: a get_auth_token call that observed an expired or invalid token
\* removes that token only: when the map holds a newer token for the uuid
\* by the time the call removes, the newer token stays in the map and in
\* the file
C35_RemovalSparesNewerToken ==
    [][\A k \in DOMAIN auth_calls :
          (Removing(k) /\ auth_tokens[auth_calls[k].uuid].id > auth_calls[k].observed.id)
             => /\ auth_tokens'[auth_calls[k].uuid] = auth_tokens[auth_calls[k].uuid]
                /\ tokens_file'[auth_calls[k].uuid] = tokens_file[auth_calls[k].uuid]]_vars
====
